---- MODULE Spec2Model ----
(***************************************************************************)
(* A model of the dialogue action runtime and of its configuration cache.  *)
(*                                                                         *)
(* The module holds several specifications over one set of variables, one  *)
(* per component:                                                          *)
(*   SpecCC  the layered configuration cache (ConfigManager) together with *)
(*           the admin endpoints that write task configuration;            *)
(*   SpecBC  one call of the retrying backend client (_make_request);      *)
(*   SpecDR  the booking slots of a conversation under the runtime actions;*)
(*   SpecEX  the runs of the actions, in which an exception may occur;     *)
(*   SpecBK  the create and reschedule actions of the booking task;        *)
(*   SpecVL  the validators and required_slots, applied as functions;      *)
(*   SpecGT  the task-enablement gate (ActionCheckTaskEnabled);            *)
(*   SpecRG  the guardrail check and the answer action;                    *)
(*   SpecLM  the LLM fallback action and the LLM clients;                  *)
(*   SpecAU  the audit logger, its sinks and its sanitizer;                *)
(*   SpecSN  the configuration objects the cache hands to its consumers;   *)
(*   SpecIV  the configuration cache of two tasks under invalidation;      *)
(*   SpecEV  the event lists the actions return, applied to the slots;     *)
(*   SpecPL  the lazily created database pool of the audit logger;         *)
(*   SpecSW  two turns of one process reading the configuration cache;     *)
(*   SpecCB  one run of action_create_booking against the backend;         *)
(*   SpecIF  the configuration cache with the history of invalidations;    *)
(*   SpecTR  the admin endpoint that starts model training;                *)
(*   SpecTG  the admin task switch and the gate that reads it.             *)
(* Each specification leaves the variables of the other components at      *)
(* their initial values.                                                   *)
(***************************************************************************)
EXTENDS Integers, Sequences, FiniteSets, TLC

VARIABLES
    \* ---- configuration cache (config_manager.py, admin/config/api.py)
    now,               \* wall clock, in seconds
    db,                \* task_config table: task -> revision of the row (0: no row)
    redis,             \* shared cache: key -> [val, exp]
    cache,             \* ConfigManager._cache, per runtime process
    cache_timestamps,  \* ConfigManager._cache_timestamps, per runtime process
    pending,           \* get_task_config calls suspended in _fetch_from_api
    last,              \* the step get_task_config took in the last transition, if any
    populated,         \* history: per process and task, the time of its latest
                       \* fetch that populated the caches, until invalidated
    ops,               \* history: get_task_config and invalidate_cache calls so far
    \* ---- backend client (api_client.py)
    bc,
    \* ---- dialogue runtime slots (booking_actions.py, utility_actions.py,
    \*      validation_actions.py)
    slots,
    \* ---- one action run (booking_actions.py, meeting_actions.py, ...)
    ex

ccVars == <<now, db, redis, cache, cache_timestamps, pending, last, populated, ops>>
vars == <<now, db, redis, cache, cache_timestamps, pending, last, populated, ops, bc, slots, ex>>

(***************************************************************************)
(* Bounds of the model.                                                    *)
(***************************************************************************)
MaxTicks == 3
MaxRev == 1
MaxOps == 3

(***************************************************************************)
(* CONFIGURATION CACHE                                                     *)
(***************************************************************************)

\* _cache_ttl = timedelta(minutes=5), in seconds (int(_cache_ttl.total_seconds())
\* is what SETEX is given).
TTL == 300

\* The clock of the model advances in steps of half a TTL, so that two instants
\* are less than, exactly, or more than one TTL apart.
Step == TTL \div 2

Tasks == {"book_service", "check_booking"}

\* The runtime's worker processes: _cache and _cache_timestamps are class
\* attributes, one copy per process; the shared cache is one for all.
Procs == {"w1", "w2"}

\* The turns that may be inside get_task_config, and the process each runs in.
Callers == {"t1", "t2"}

\* Two turns that run in one process, interleaved by its event loop.
Turns == {"t1", "t3"}

ProcOf(c) == IF c \in Turns THEN "w1" ELSE "w2"

\* A configuration snapshot: the revision of the row it was read from and the
\* time the admin API's answer was received (history, for staleness).
\* rev = -1 is the built-in default, NoCfg an absent value (Python's None).
NoCfg == [rev |-> -2, at |-> 0]

NoTime == -1

NoEntry == [val |-> NoCfg, exp |-> 0]

\* f"config:{task_name}": a key is the sequence of its colon-separated parts.
CacheKey(name) == <<"config">> \o name

\* The key get_task_config and invalidate_cache use for a task.
RuntimeKey(task) == CacheKey(<<task>>)

\* The key the admin layer deletes after a write to a task:
\* invalidate_config_cache(f"task_config:{task_name}") deletes f"config:{key}".
AdminKey(task) == CacheKey(<<"task_config", task>>)

RuntimeKeys == {RuntimeKey(t) : t \in Tasks}

RedisKeys == RuntimeKeys \cup {AdminKey(t) : t \in Tasks}

\* _get_default_config: every name has a default, with enabled = True.
DefaultConfig(task) == [rev |-> -1, at |-> 0]

\* The names _get_default_config has an entry for, and one it has none for.
DefaultNames ==
    {"book_service", "schedule_meeting", "cancel_booking", "reschedule_booking",
     "check_booking"}

ConfigNames == DefaultNames \cup {"unknown_task"}

\* The "enabled" field of each entry of _get_default_config's table.
defaults == [n \in DefaultNames |-> [enabled |-> TRUE]]

\* defaults.get(task_name, {"enabled": True})["enabled"]
DefaultEnabled(name) ==
    IF name \in DOMAIN defaults THEN defaults[name].enabled ELSE TRUE

\* _is_cache_valid with the TTL taken as 5 seconds instead of 5 minutes.
IsCacheValid_SecondsTtl(p, key) ==
    /\ cache[p][key] # NoCfg
    /\ cache_timestamps[p][key] # NoTime
    /\ now - cache_timestamps[p][key] < 5

\* _is_cache_valid
IsCacheValid(p, key) ==
    /\ cache[p][key] # NoCfg
    /\ cache_timestamps[p][key] # NoTime
    /\ now - cache_timestamps[p][key] < TTL

\* redis GET: an entry written by SETEX is gone once its time is up.
RedisGet(key) ==
    IF redis[key] # NoEntry /\ now < redis[key].exp THEN redis[key].val ELSE NoCfg

\* _update_local_cache
UpdateLocalCache(p, key, config) ==
    /\ cache' = [cache EXCEPT ![p][key] = config]
    /\ cache_timestamps' = [cache_timestamps EXCEPT ![p][key] = now]

\* _update_cache that forgets the shared cache.
UpdateCache_LocalOnly(p, key, config, wr) ==
    /\ UpdateLocalCache(p, key, config)
    /\ redis' = redis

\* _update_cache: the local map, then SETEX key TTL value in the shared cache,
\* whose failure is logged and swallowed.  wr is what the Redis handle does:
\* "up", "error" (the write raises) or "absent" (_redis is None).
UpdateCache(p, key, config, wr) ==
    /\ UpdateLocalCache(p, key, config)
    /\ redis' = IF wr = "up"
                THEN [redis EXCEPT ![key] = [val |-> config, exp |-> now + TTL]]
                ELSE redis

\* The admin endpoint GET /config/tasks/{task_name}: the row's config, or the
\* default when there is no row.  The time of receipt is stamped by the caller.
ApiConfig(task) == [rev |-> db[task], at |-> 0]

NoCall == [task |-> "", resp |-> NoCfg]

\* The step get_task_config took last: which layer answered ("local", "redis",
\* "api", "default") or "fetching" when it suspended in the admin request;
\* the value returned; whether the shared cache was read; whether the admin
\* API was requested; what the Redis handle did in that step; and, as
\* history, the time of the process's populated fetch of that task when the
\* call began.
NoLast ==
    [caller |-> "", task |-> "", src |-> "none", val |-> NoCfg,
     redisRead |-> FALSE, apiReq |-> FALSE, rd |-> "", since |-> NoTime]

\* Time passes.
Tick ==
    /\ now < MaxTicks * Step
    /\ now' = now + Step
    /\ last' = NoLast
    /\ UNCHANGED <<db, redis, cache, cache_timestamps, pending, populated, ops>>

\* get_task_config up to its first suspension: the local map, then the shared
\* cache, then the request to the admin API.  rd is what this ConfigManager's
\* Redis handle does: "up" (the GET is answered), "error" (the GET raises) or
\* "absent" (_init_redis left _redis None, no GET is made).  ok is whether the
\* admin API will answer 200.
GetStart(c, task, rd, ok) ==
    LET p == ProcOf(c)
        key == RuntimeKey(task)
        hit == IF rd = "up" THEN RedisGet(key) ELSE NoCfg
        step == [caller |-> c, task |-> task, src |-> "fetching", val |-> NoCfg,
                 redisRead |-> FALSE, apiReq |-> FALSE, rd |-> rd,
                 since |-> populated[p][task]]
    IN
    /\ pending[c] = NoCall
    /\ ops < MaxOps
    /\ ops' = ops + 1
    /\ IF IsCacheValid(p, key)
       THEN /\ last' = [step EXCEPT !.src = "local", !.val = cache[p][key]]
            /\ UNCHANGED <<cache, cache_timestamps, pending>>
       ELSE IF hit # NoCfg
       THEN /\ UpdateLocalCache(p, key, hit)
            /\ last' = [step EXCEPT !.src = "redis", !.val = hit, !.redisRead = TRUE]
            /\ UNCHANGED pending
       ELSE \* await self._fetch_from_api(task_name)
            /\ pending' = [pending EXCEPT ![c] =
                   [task |-> task, resp |-> IF ok THEN ApiConfig(task) ELSE NoCfg]]
            /\ last' = [step EXCEPT !.redisRead = (rd # "absent"), !.apiReq = TRUE]
            /\ UNCHANGED <<cache, cache_timestamps>>
    /\ UNCHANGED <<now, db, redis, populated>>

\* get_task_config that stores the built-in default in both caches.
GetFinish_CachesDefault(c, wr) ==
    LET p == ProcOf(c)
        task == pending[c].task
        key == RuntimeKey(task)
        got == pending[c].resp
        config == IF got = NoCfg THEN NoCfg ELSE [got EXCEPT !.at = now]
        step == [caller |-> c, task |-> task, src |-> "default",
                 val |-> DefaultConfig(task),
                 redisRead |-> FALSE, apiReq |-> FALSE, rd |-> wr,
                 since |-> NoTime]
    IN
    /\ pending[c] # NoCall
    /\ pending' = [pending EXCEPT ![c] = NoCall]
    /\ IF config # NoCfg
       THEN /\ UpdateCache(p, key, config, wr)
            /\ populated' = [populated EXCEPT ![p][task] = now]
            /\ last' = [step EXCEPT !.src = "api", !.val = config]
       ELSE /\ UpdateCache(p, key, DefaultConfig(task), wr)
            /\ last' = step
            /\ UNCHANGED populated
    /\ UNCHANGED <<now, db, ops>>

\* get_task_config after _fetch_from_api returned: on a config, _update_cache;
\* otherwise the built-in default.
GetFinish(c, wr) ==
    LET p == ProcOf(c)
        task == pending[c].task
        key == RuntimeKey(task)
        got == pending[c].resp
        config == IF got = NoCfg THEN NoCfg ELSE [got EXCEPT !.at = now]
        step == [caller |-> c, task |-> task, src |-> "default",
                 val |-> DefaultConfig(task),
                 redisRead |-> FALSE, apiReq |-> FALSE, rd |-> wr,
                 since |-> NoTime]
    IN
    /\ pending[c] # NoCall
    /\ pending' = [pending EXCEPT ![c] = NoCall]
    /\ IF config # NoCfg
       THEN /\ UpdateCache(p, key, config, wr)
            /\ populated' = [populated EXCEPT ![p][task] = now]
            /\ last' = [step EXCEPT !.src = "api", !.val = config]
       ELSE /\ last' = step
            /\ UNCHANGED <<cache, cache_timestamps, redis, populated>>
    /\ UNCHANGED <<now, db, ops>>

\* invalidate_cache(task_name) that clears the whole local map.
InvalidateCache_WholeMap(p, task, del) ==
    LET key == RuntimeKey(task) IN
    /\ cache' = [cache EXCEPT ![p] = [k \in RuntimeKeys |-> NoCfg]]
    /\ cache_timestamps' = [cache_timestamps EXCEPT ![p] = [k \in RuntimeKeys |-> NoTime]]
    /\ redis' = IF del = "up" THEN [redis EXCEPT ![key] = NoEntry] ELSE redis
    /\ populated' = [populated EXCEPT ![p][task] = NoTime]
    /\ last' = NoLast
    /\ ops < MaxOps
    /\ ops' = ops + 1
    /\ UNCHANGED <<now, db, pending>>

\* ConfigManager.invalidate_cache(task_name) in process p.
InvalidateCache(p, task, del) ==
    LET key == RuntimeKey(task) IN
    /\ cache' = [cache EXCEPT ![p][key] = NoCfg]
    /\ cache_timestamps' = [cache_timestamps EXCEPT ![p][key] = NoTime]
    /\ redis' = IF del = "up" THEN [redis EXCEPT ![key] = NoEntry] ELSE redis
    /\ populated' = [populated EXCEPT ![p][task] = NoTime]
    /\ last' = NoLast
    /\ ops < MaxOps
    /\ ops' = ops + 1
    /\ UNCHANGED <<now, db, pending>>

\* ConfigManager.invalidate_cache() in process p: every local entry, and the
\* shared keys matching config:*.
InvalidateAll(p, del) ==
    /\ cache' = [cache EXCEPT ![p] = [k \in RuntimeKeys |-> NoCfg]]
    /\ cache_timestamps' = [cache_timestamps EXCEPT ![p] = [k \in RuntimeKeys |-> NoTime]]
    /\ redis' = IF del = "up" THEN [k \in RedisKeys |-> NoEntry] ELSE redis
    /\ populated' = [populated EXCEPT ![p] = [t \in Tasks |-> NoTime]]
    /\ last' = NoLast
    /\ ops < MaxOps
    /\ ops' = ops + 1
    /\ UNCHANGED <<now, db, pending>>

\* invalidate_config_cache(key) of the admin layer: DEL config:<key> in the
\* shared cache; any failure is swallowed.
InvalidateConfigCache(name, del) ==
    IF del = "up" THEN [redis EXCEPT ![CacheKey(name)] = NoEntry] ELSE redis

\* PUT /config/tasks/{task_name}: upsert the row, then invalidate.
UpdateTaskConfig(task, del) ==
    /\ db[task] < MaxRev
    /\ db' = [db EXCEPT ![task] = @ + 1]
    /\ redis' = InvalidateConfigCache(<<"task_config", task>>, del)
    /\ last' = NoLast
    /\ UNCHANGED <<now, cache, cache_timestamps, pending, populated, ops>>

\* PATCH /config/tasks/{task_name}/toggle: UPDATE the row if there is one, then
\* invalidate.
ToggleTask(task, del) ==
    /\ db[task] < MaxRev
    /\ db' = [db EXCEPT ![task] = IF @ = 0 THEN 0 ELSE @ + 1]
    /\ redis' = InvalidateConfigCache(<<"task_config", task>>, del)
    /\ last' = NoLast
    /\ UNCHANGED <<now, cache, cache_timestamps, pending, populated, ops>>

RedisModes == {"up", "error", "absent"}

\* The task the clocked specification reads and writes; the entries of the
\* other task stay as they were constructed.
TimedTasks == {"book_service"}

(***************************************************************************)
(* BACKEND CLIENT                                                          *)
(***************************************************************************)

\* self.max_retries
max_retries == 3

\* self.retry_delay, in seconds
retry_delay == 1

\* The client's verbs; each is one _make_request call.
Verbs == {"create_booking", "get_booking", "cancel_booking"}

\* What one HTTP request can come to: a response (its status, what
\* response.json() finds in its body, its Retry-After header), a timeout, or a
\* connection error.  Bodies: "object" is a JSON object with neither a success
\* nor an error field, "object_success_false" one with success: false,
\* "object_error" one with an error field, "not_json" a body whose content type
\* is not JSON (response.json() raises ContentTypeError, an aiohttp.ClientError),
\* "invalid_json" a JSON content type with a body that does not parse
\* (a ValueError).
Response(status, body, retry_after) ==
    [kind |-> "response", status |-> status, body |-> body, retry_after |-> retry_after]

Timeout == [kind |-> "timeout", status |-> 0, body |-> "", retry_after |-> ""]

ClientError == [kind |-> "client_error", status |-> 0, body |-> "", retry_after |-> ""]

Outcomes ==
    { Response(200, "object", ""), Response(200, "object_success_false", ""),
      Response(200, "not_json", ""), Response(200, "invalid_json", ""),
      Response(404, "object", ""), Response(404, "not_json", ""),
      Response(401, "object", ""),
      Response(429, "object", "2"), Response(429, "object", ""),
      Response(429, "object", "soon"),
      Response(503, "object_error", ""), Response(503, "object", ""),
      Timeout, ClientError }

\* int(response.headers.get("Retry-After", 5)) for the headers of the model;
\* "soon" is not a number and int() raises ValueError.
RetryAfterSeconds(h) == IF h = "" THEN 5 ELSE 2

Envelope(success, error) == [success |-> success, error |-> error]

NoEnvelope == Envelope(FALSE, "")

\* The client at rest.
NoRequest ==
    [pc |-> "idle", verb |-> "", attempt |-> 0, hist |-> <<>>, slept |-> <<>>,
     result |-> NoEnvelope]

\* The backoff that does not grow.
Backoff_Constant(attempt) == retry_delay

\* self.retry_delay * (2 ** attempt)
Backoff(attempt) == retry_delay * (2 ^ attempt)

\* What one pass of the retry loop does with the outcome o of its request:
\* "return" with an envelope, or "continue" after a sleep.
\* The except clauses in order: asyncio.TimeoutError, aiohttp.ClientError,
\* Exception.
Dispatch(attempt, o) ==
    LET retry(error) ==
            IF attempt < max_retries - 1
            THEN [do |-> "continue", sleep |-> Backoff(attempt), env |-> NoEnvelope]
            ELSE [do |-> "return", sleep |-> 0, env |-> Envelope(FALSE, error)]
        return(env) == [do |-> "return", sleep |-> 0, env |-> env]
    IN
    IF o.kind = "timeout" THEN retry("Request timed out")
    ELSE IF o.kind = "client_error" THEN retry("Connection error")
    \* response_data = await response.json()
    ELSE IF o.body = "not_json" THEN retry("Connection error")
    ELSE IF o.body = "invalid_json" THEN return(Envelope(FALSE, "Internal error"))
    ELSE IF o.status >= 200 /\ o.status < 300
         \* {"success": True, **response_data}
         THEN return(Envelope(o.body # "object_success_false", ""))
    ELSE IF o.status = 404 THEN return(Envelope(FALSE, "Resource not found"))
    ELSE IF o.status = 401 THEN return(Envelope(FALSE, "Authentication failed"))
    ELSE IF o.status = 429
         THEN IF o.retry_after = "soon"
              THEN return(Envelope(FALSE, "Internal error"))
              ELSE [do |-> "continue", sleep |-> RetryAfterSeconds(o.retry_after),
                    env |-> NoEnvelope]
    \* response_data.get("error", f"HTTP {response.status}"); the error field
    \* of the model's bodies reads "Service unavailable", their status is 503.
    ELSE return(Envelope(FALSE, IF o.body = "object_error"
                                THEN "Service unavailable" ELSE "HTTP 503"))

\* A verb of the client is called.
StartCall(verb) ==
    /\ bc.pc # "running"
    /\ bc' = [NoRequest EXCEPT !.pc = "running", !.verb = verb]

\* One pass of  for attempt in range(self.max_retries):  the request, the
\* dispatch on its outcome and, on a retry, the sleep.
Attempt(o) ==
    LET d == Dispatch(bc.attempt, o) IN
    /\ bc.pc = "running"
    /\ bc.attempt < max_retries
    /\ bc' = [bc EXCEPT
                !.hist = Append(@, o),
                !.slept = Append(@, d.sleep),
                !.attempt = @ + 1,
                !.pc = IF d.do = "return" THEN "done" ELSE "running",
                !.result = d.env]

\* The loop ran out: return {"success": False, "error": "Max retries exceeded"}.
Exhausted ==
    /\ bc.pc = "running"
    /\ bc.attempt >= max_retries
    /\ bc' = [bc EXCEPT !.pc = "done",
                        !.result = Envelope(FALSE, "Max retries exceeded")]

(***************************************************************************)
(* DIALOGUE RUNTIME: SLOTS                                                 *)
(***************************************************************************)

\* A slot that is not set (Python's None).
None == "None"

\* The slots every booking needs (minimum_slots).
minimum_slots ==
    {"service_type", "booking_date", "booking_time", "customer_name", "customer_email"}

\* datetime.now().date()
Today == "2024-01-15"

\* The dates of the model, as days counted from Today.
DayOf(d) ==
    CASE d = "2024-01-14" -> 0 - 1
      [] d = "2024-01-15" -> 0
      [] d = "2024-01-16" -> 1
      [] d = "2024-01-20" -> 5
      [] d = "2024-06-01" -> 138

IsoDates == {"2024-01-14", "2024-01-15", "2024-01-16", "2024-01-20", "2024-06-01"}

\* The times of the model, "%H:%M": the times a slot can hold, and the times
\* business hours can start and end.
IsoTimes == {"08:30", "09:10", "14:00", "17:10", "18:30", "20:00"}

HoursTimes == {"09:00", "09:30", "17:30", "18:00"}

\* The hour and the minute a time string stands for.
Clock(t) ==
    CASE t = "08:30" -> <<8, 30>>  [] t = "09:00" -> <<9, 0>>   [] t = "09:10" -> <<9, 10>>
      [] t = "09:30" -> <<9, 30>>  [] t = "14:00" -> <<14, 0>>  [] t = "17:10" -> <<17, 10>>
      [] t = "17:30" -> <<17, 30>> [] t = "18:00" -> <<18, 0>>  [] t = "18:30" -> <<18, 30>>
      [] t = "20:00" -> <<20, 0>>

\* parsed_time.hour, and int(t.split(":")[0])
HourOf(t) == Clock(t)[1]

\* The order of datetime.time values: minutes since midnight.
MinuteOfDay(t) == Clock(t)[1] * 60 + Clock(t)[2]

\* The book_service configuration the validators read: the built-in default
\* with one blocked date.
BookConfig ==
    [business_hours |-> [start |-> "09:00", end |-> "18:00"],
     blocked_dates |-> {"2024-01-20"},
     booking_window_days |-> 90,
     services |-> {"Consultation", "Demo", "Support Session"}]

\* ValidationUtils.parse_date on the inputs of the model: an ISO date, a
\* Duckling value (the part before 'T'), a relative day, or nothing
\* recognisable.
parse_date(x) ==
    CASE x \in IsoDates -> x
      [] x = "2024-01-14T00:00:00.000-08:00" -> "2024-01-14"
      [] x = "2024-01-16T00:00:00.000-08:00" -> "2024-01-16"
      [] x = "2024-06-01T00:00:00.000-08:00" -> "2024-06-01"
      [] x = "yesterday" -> "2024-01-14"
      [] x = "tomorrow" -> "2024-01-16"
      [] OTHER -> None

DateInputs ==
    IsoDates \cup {"2024-01-14T00:00:00.000-08:00", "2024-01-16T00:00:00.000-08:00",
                   "2024-06-01T00:00:00.000-08:00", "yesterday", "tomorrow", "someday", None}

\* ValidationUtils.parse_time on the inputs of the model.
parse_time(x) ==
    CASE x \in IsoTimes -> x
      [] x = "2pm" -> "14:00"
      [] x = "8:30 am" -> "08:30"
      [] x = "2024-01-16T20:00:00.000-08:00" -> "20:00"
      [] OTHER -> None

TimeInputs ==
    IsoTimes \cup {"2pm", "8:30 am", "2024-01-16T20:00:00.000-08:00", "later", None}

\* validate_service_type: the name of the enabled service that matches
\* slot_value.lower().strip(), else None.
validate_service_type(slot_value) ==
    CASE slot_value \in {"Consultation", "consultation", " consultation "} -> "Consultation"
      [] slot_value \in {"Demo", "demo"} -> "Demo"
      [] slot_value \in {"Support Session", "support"} -> "Support Session"
      [] OTHER -> None

ServiceInputs ==
    {"Consultation", "consultation", " consultation ", "Demo", "demo", "Support Session",
     "support", "massage", None}

\* validate_booking_date: parsed, not in the past, within the booking window,
\* not blocked.
validate_booking_date(slot_value) ==
    LET parsed_date == IF slot_value = None THEN None ELSE parse_date(slot_value) IN
    IF parsed_date = None THEN None
    ELSE IF DayOf(parsed_date) < DayOf(Today) THEN None
    ELSE IF DayOf(parsed_date) > DayOf(Today) + BookConfig.booking_window_days THEN None
    ELSE IF parsed_date \in BookConfig.blocked_dates THEN None
    ELSE parsed_date

\* validate_booking_time when the configuration has these business hours:
\* the time parsed, and its hour from the hour of start up to, not including,
\* the hour of end.
validate_booking_time_with(slot_value, business_hours) ==
    LET parsed_time == IF slot_value = None THEN None ELSE parse_time(slot_value)
        start_hour == HourOf(business_hours.start)
        end_hour == HourOf(business_hours.end)
    IN
    IF parsed_time = None THEN None
    ELSE IF HourOf(parsed_time) < start_hour \/ HourOf(parsed_time) >= end_hour THEN None
    ELSE parsed_time

\* validate_booking_time under the book_service configuration of the model.
validate_booking_time(slot_value) ==
    validate_booking_time_with(slot_value, BookConfig.business_hours)

\* validate_customer_name: slot_value.strip(), at least two characters.
validate_customer_name(slot_value) ==
    CASE slot_value \in {"Ann Lee", " Ann Lee "} -> "Ann Lee"
      [] OTHER -> None

NameInputs == {"Ann Lee", " Ann Lee ", "A", " ", None}

\* validate_customer_email: slot_value.strip().lower(), if is_valid_email.
validate_customer_email(slot_value) ==
    CASE slot_value \in {"ann@x.org", " Ann@X.org "} -> "ann@x.org"
      [] OTHER -> None

EmailInputs == {"ann@x.org", " Ann@X.org ", "ann-at-x", None}

\* The validate_<slot> method of ValidateBookingForm.
Validate(slot, slot_value) ==
    CASE slot = "service_type" -> validate_service_type(slot_value)
      [] slot = "booking_date" -> validate_booking_date(slot_value)
      [] slot = "booking_time" -> validate_booking_time(slot_value)
      [] slot = "customer_name" -> validate_customer_name(slot_value)
      [] slot = "customer_email" -> validate_customer_email(slot_value)

Inputs(slot) ==
    CASE slot = "service_type" -> ServiceInputs
      [] slot = "booking_date" -> DateInputs
      [] slot = "booking_time" -> TimeInputs
      [] slot = "customer_name" -> NameInputs
      [] slot = "customer_email" -> EmailInputs

\* ValidationUtils.validate_datetime: strptime of both, the date not in the
\* past and not blocked, the time within the business hours.
validate_datetime_with(date_str, time_str, business_hours, blocked_dates) ==
    /\ date_str \in IsoDates
    /\ DayOf(date_str) >= DayOf(Today)
    /\ date_str \notin blocked_dates
    /\ time_str \in IsoTimes
    /\ MinuteOfDay(time_str) >= MinuteOfDay(business_hours.start)
    /\ MinuteOfDay(time_str) < MinuteOfDay(business_hours.end)

\* validate_datetime as ActionRescheduleBooking calls it, with the business
\* hours and the blocked dates of the book_service configuration.
validate_datetime(date_str, time_str) ==
    validate_datetime_with(date_str, time_str, BookConfig.business_hours,
                           BookConfig.blocked_dates)

\* The tracker's slots at the start of a conversation, and the action that
\* ran last.
NoSlots ==
    [service_type |-> None, booking_date |-> None, booking_time |-> None,
     customer_name |-> None, customer_email |-> None, booking_id |-> None,
     by |-> "session_start"]

\* The booking form validates the candidate of one of its slots.
ValidateBookingForm(slot, slot_value) ==
    slots' = [slots EXCEPT ![slot] = Validate(slot, slot_value), !.by = "validate_booking_form"]

\* ActionExtractDate on a message whose first time entity has this value.
ActionExtractDate(value) ==
    LET date == IF value = None THEN None ELSE parse_date(value) IN
    slots' = [slots EXCEPT !.booking_date = IF date # None THEN date ELSE @,
                           !.by = "action_extract_date"]

\* ActionExtractTime on a message whose first time entity has this value.
ActionExtractTime(value) ==
    LET time == IF value = None THEN None ELSE parse_time(value) IN
    slots' = [slots EXCEPT !.booking_time = IF time # None THEN time ELSE @,
                           !.by = "action_extract_time"]

\* What get_booking can return to the status check: the envelope's success,
\* and the service_type, date and time of its booking record (None: the
\* record lacks the field).
BookingRecords ==
    [success : BOOLEAN, service_type : {"Consultation", None},
     date : {"2024-01-14", "2024-01-16", None}, time : {"14:00", None}]

\* ActionCheckBookingStatus with the booking id of the slot or of the entity.
ActionCheckBookingStatus(entity, response) ==
    LET booking_id == IF slots.booking_id # None THEN slots.booking_id ELSE entity
        get(v) == IF v = None THEN "Unknown" ELSE v
    IN
    slots' =
        IF booking_id = None THEN [slots EXCEPT !.by = "action_check_booking_status"]
        ELSE IF response.success
        THEN [slots EXCEPT !.booking_id = booking_id,
                           !.service_type = get(response.service_type),
                           !.booking_date = get(response.date),
                           !.booking_time = get(response.time),
                           !.by = "action_check_booking_status"]
        ELSE [slots EXCEPT !.booking_id = None, !.by = "action_check_booking_status"]

\* ActionRescheduleBooking; success is the envelope's of reschedule_booking.
ActionRescheduleBooking(success) ==
    LET new_date == slots.booking_date
        new_time == slots.booking_time
    IN
    slots' =
        IF slots.booking_id = None \/ new_date = None \/ new_time = None
        THEN [slots EXCEPT !.by = "action_reschedule_booking"]
        ELSE IF ~validate_datetime(new_date, new_time)
        THEN [slots EXCEPT !.by = "action_reschedule_booking"]
        ELSE IF success
        THEN [slots EXCEPT !.booking_date = new_date, !.booking_time = new_time,
                           !.by = "action_reschedule_booking"]
        ELSE [slots EXCEPT !.by = "action_reschedule_booking"]

\* ActionResetSlots.
ActionResetSlots == slots' = [NoSlots EXCEPT !.by = "action_reset_slots"]

BookingIds == {"BK-1234-5678", None}

(***************************************************************************)
(* DIALOGUE RUNTIME: AN ACTION RUN                                         *)
(***************************************************************************)

\* The runs of one conversation the model follows.
MaxRuns == 2

\* What a run of an action leaves behind: the statuses of the audit records
\* it wrote (AuditLogger.log_action), the number of messages it gave the
\* dispatcher, the list of events it returned ("empty", "nonempty", or "none"
\* when run() did not return), and whether an exception left run().
Outcome(audit, messages, events) ==
    [audit |-> audit, messages |-> messages, events |-> events, raised |-> FALSE]

\* The ways through run() that end in a return outside an except clause, for
\* every action of the registry.
Returns(action) ==
    CASE action = "action_create_booking" ->
            [early_return |-> Outcome(<<>>, 1, "nonempty"),
             success |-> Outcome(<<"success">>, 0, "nonempty"),
             failed |-> Outcome(<<"failed">>, 1, "empty")]
      [] action = "action_cancel_booking" ->
            [early_return |-> Outcome(<<>>, 1, "nonempty"),
             success |-> Outcome(<<"success">>, 0, "nonempty"),
             failed |-> Outcome(<<>>, 1, "empty")]
      [] action = "action_reschedule_booking" ->
            [early_return |-> Outcome(<<>>, 1, "nonempty"),
             success |-> Outcome(<<"success">>, 0, "nonempty"),
             failed |-> Outcome(<<>>, 1, "empty")]
      [] action = "action_check_booking_status" ->
            [early_return |-> Outcome(<<>>, 1, "nonempty"),
             success |-> Outcome(<<>>, 1, "nonempty"),
             failed |-> Outcome(<<>>, 1, "nonempty")]
      [] action = "action_get_available_slots" ->
            [success |-> Outcome(<<>>, 1, "empty"),
             failed |-> Outcome(<<>>, 1, "empty")]
      [] action = "action_schedule_meeting" ->
            [early_return |-> Outcome(<<>>, 1, "nonempty"),
             success |-> Outcome(<<"success">>, 1, "nonempty"),
             failed |-> Outcome(<<"failed">>, 1, "empty"),
             conflict |-> Outcome(<<"failed">>, 1, "nonempty")]
      [] action = "action_get_available_meeting_times" ->
            [success |-> Outcome(<<>>, 1, "empty"),
             failed |-> Outcome(<<>>, 1, "empty")]
      [] action = "action_answer_question" ->
            [success |-> Outcome(<<>>, 1, "nonempty"),
             clarify |-> Outcome(<<>>, 1, "empty"),
             failed |-> Outcome(<<>>, 1, "nonempty")]
      [] action = "action_search_knowledge_base" ->
            [success |-> Outcome(<<>>, 1, "empty"),
             failed |-> Outcome(<<>>, 1, "empty")]
      [] action = "action_check_task_enabled" ->
            [success |-> Outcome(<<>>, 0, "nonempty"),
             failed |-> Outcome(<<>>, 1, "nonempty")]
      [] action = "action_get_task_config" ->
            [early_return |-> Outcome(<<>>, 0, "empty"),
             success |-> Outcome(<<>>, 1, "empty")]
      [] action = "action_extract_date" ->
            [success |-> Outcome(<<>>, 0, "nonempty"),
             failed |-> Outcome(<<>>, 0, "empty")]
      [] action = "action_extract_time" ->
            [success |-> Outcome(<<>>, 0, "nonempty"),
             failed |-> Outcome(<<>>, 0, "empty")]
      [] action = "action_reset_slots" ->
            [success |-> Outcome(<<>>, 0, "nonempty")]
      [] action = "action_log_interaction" ->
            [success |-> Outcome(<<>>, 0, "empty")]
      [] action = "action_handoff_to_human" ->
            [success |-> Outcome(<<"initiated">>, 1, "empty"),
             live_chat |-> Outcome(<<"initiated">>, 2, "empty")]
      [] action = "action_collect_callback_info" ->
            [success |-> Outcome(<<"created">>, 1, "empty"),
             failed |-> Outcome(<<>>, 1, "empty")]

ActionNames ==
    {"action_create_booking", "action_cancel_booking", "action_reschedule_booking",
     "action_check_booking_status", "action_get_available_slots",
     "action_schedule_meeting", "action_get_available_meeting_times",
     "action_answer_question", "action_search_knowledge_base",
     "action_check_task_enabled", "action_get_task_config", "action_extract_date",
     "action_extract_time", "action_reset_slots", "action_log_interaction",
     "action_handoff_to_human", "action_collect_callback_info"}

\* The actions whose run() has no try/except around its body.
Unguarded ==
    {"action_extract_date", "action_extract_time", "action_reset_slots",
     "action_log_interaction", "action_handoff_to_human", "action_collect_callback_info"}

\* The messages run() can have given the dispatcher before a statement of its
\* body raises: the handoff and the callback action speak before their last
\* statements.
SaidBefore(action) ==
    IF action \in {"action_handoff_to_human", "action_collect_callback_info"}
    THEN {0, 1} ELSE {0}

\* The except Exception clause of run(), entered after the body gave said
\* messages; without one the exception leaves run().
OnException(action, said) ==
    IF action \in Unguarded
        THEN [audit |-> <<>>, messages |-> said, events |-> "none", raised |-> TRUE]
    ELSE IF action = "action_create_booking"
        THEN Outcome(<<"exception">>, said + 1, "empty")
    ELSE IF action = "action_check_task_enabled"
        THEN Outcome(<<>>, said, "nonempty")
    ELSE IF action = "action_get_task_config"
        THEN Outcome(<<>>, said, "empty")
    ELSE Outcome(<<>>, said + 1, "empty")

\* Before the first action of the conversation.
NoRun == [action |-> "", path |-> "", out |-> Outcome(<<>>, 0, "none"), runs |-> 0,
          trail |-> <<>>]

\* The action server runs an action and it returns along one of its paths.
Run(action, path) ==
    /\ ex.runs < MaxRuns
    /\ ex' = [action |-> action, path |-> path, out |-> Returns(action)[path],
              runs |-> ex.runs + 1, trail |-> ex.trail \o Returns(action)[path].audit]

\* The action server runs an action and a statement of its body raises.
RunRaises(action, said) ==
    /\ ex.runs < MaxRuns
    /\ ex' = [action |-> action, path |-> "exception", out |-> OnException(action, said),
              runs |-> ex.runs + 1, trail |-> ex.trail \o OnException(action, said).audit]

\* The conversation ends and another begins.
NewConversation ==
    /\ ex.runs > 0
    /\ ex' = NoRun

(***************************************************************************)
(* DIALOGUE RUNTIME: THE TERMINAL ACTIONS OF THE BOOKING TASK              *)
(***************************************************************************)

\* The events an action returns.
SlotSet(name) == <<"SlotSet", name>>

FollowupAction(name) == <<"FollowupAction", name>>

\* What a run of an action did, in order: the verbs of the backend client it
\* called, the statuses of the audit records it wrote, the messages it gave
\* the dispatcher, the events it returned; and what the backend answered.
Turn(action, result, backend, audit, messages, events) ==
    [action |-> action, result |-> result, backend |-> backend, audit |-> audit,
     messages |-> messages, events |-> events]

\* What happens inside the try block of a booking action: the client returns
\* a success envelope (with or without a booking_id), a failure envelope, or
\* a statement raises before the client is called (int(party_size)).
Results ==
    {[kind |-> "success", booking_id |-> b] : b \in BookingIds}
        \cup {[kind |-> "failure", booking_id |-> None],
              [kind |-> "raises", booking_id |-> None]}

\* not all([service_type, booking_date, booking_time, customer_name]): the
\* check that forgets the e-mail address.
MissingInformation_NoEmail(s) ==
    \E n \in minimum_slots \ {"customer_email"} : s[n] = None

\* not all([service_type, booking_date, booking_time, customer_name,
\*          customer_email])
MissingInformation(s) == \E n \in minimum_slots : s[n] = None

\* ActionCreateBooking.run
ActionCreateBooking(result) ==
    LET name == "action_create_booking" IN
    IF MissingInformation(slots)
    THEN /\ ex' = Turn(name, result, <<>>, <<>>, <<"missing_information">>,
                       <<FollowupAction("booking_form")>>)
         /\ slots' = [slots EXCEPT !.by = name]
    ELSE IF result.kind = "success"
    THEN /\ ex' = Turn(name, result, <<"create_booking">>, <<"success">>, <<>>,
                       <<SlotSet("current_booking"), SlotSet("booking_id")>>)
         /\ slots' = [slots EXCEPT !.booking_id = result.booking_id, !.by = name]
    ELSE IF result.kind = "failure"
    THEN /\ ex' = Turn(name, result, <<"create_booking">>, <<"failed">>,
                       <<"utter_booking_error">>, <<>>)
         /\ slots' = [slots EXCEPT !.by = name]
    ELSE /\ ex' = Turn(name, result, <<>>, <<"exception">>,
                       <<"utter_booking_error">>, <<>>)
         /\ slots' = [slots EXCEPT !.by = name]

\* The slots a conversation can have reached when a terminal action runs.
SlotStates ==
    [service_type : {"Consultation", None},
     booking_date : {"2024-01-14", "2024-01-16", "2024-01-20", "2024-06-01", "Unknown", None},
     booking_time : {"08:30", "14:00", "18:30", "Unknown", None},
     customer_name : {"Ann Lee", None},
     customer_email : {"ann@x.org", None},
     booking_id : BookingIds,
     by : {"session_start"}]

\* The way a run of ActionRescheduleBooking goes through without asking the
\* validation.
ReschedulePath_Unvalidated(s, result) ==
    IF s.booking_id = None THEN "no_booking_id"
    ELSE IF s.booking_date = None \/ s.booking_time = None THEN "no_datetime"
    ELSE IF result.kind = "raises" THEN "raises"
    ELSE result.kind

\* The way a run of ActionRescheduleBooking goes, with the slots s and the
\* result of its try block: the two early returns, an exception (before the
\* client is called), the rejection by validate_datetime, and the two
\* envelopes of reschedule_booking.
ReschedulePath(s, result) ==
    IF s.booking_id = None THEN "no_booking_id"
    ELSE IF s.booking_date = None \/ s.booking_time = None THEN "no_datetime"
    ELSE IF result.kind = "raises" THEN "raises"
    ELSE IF ~validate_datetime(s.booking_date, s.booking_time) THEN "invalid"
    ELSE result.kind

\* ActionRescheduleBooking.run: what it does besides setting slots.
RescheduleBooking(result) ==
    LET name == "action_reschedule_booking"
        path == ReschedulePath(slots, result)
    IN
    /\ ActionRescheduleBooking(result.kind = "success")
    /\ ex' =
        CASE path = "no_booking_id" ->
                Turn(name, result, <<>>, <<>>, <<"need_booking_reference">>,
                     <<FollowupAction("booking_lookup_form")>>)
          [] path = "no_datetime" ->
                Turn(name, result, <<>>, <<>>, <<"need_date_and_time">>,
                     <<FollowupAction("booking_form")>>)
          [] path = "raises" ->
                Turn(name, result, <<>>, <<>>, <<"utter_booking_error">>, <<>>)
          [] path = "invalid" ->
                Turn(name, result, <<>>, <<>>, <<"validation_message">>, <<>>)
          [] path = "success" ->
                Turn(name, result, <<"reschedule_booking">>, <<"success">>, <<>>,
                     <<SlotSet("current_booking"), SlotSet("booking_id"),
                       SlotSet("booking_date"), SlotSet("booking_time")>>)
          [] path = "failure" ->
                Turn(name, result, <<"reschedule_booking">>, <<>>,
                     <<"could_not_reschedule">>, <<>>)

(***************************************************************************)
(* VALIDATORS AS FUNCTIONS                                                 *)
(***************************************************************************)

\* The business hours a configuration can have (BusinessHours: start and end
\* in HH:MM).
HoursConfigs == [start : {"09:00", "09:30"}, end : {"17:30", "18:00"}]

\* The blocked dates a configuration can have.
BlockedDatesConfigs == {{}, {"2024-01-20"}}

\* A function of the runtime applied to arguments, and what it returned.
Applied(fn, args, out) == [fn |-> fn, args |-> args, out |-> out]

\* validate_datetime is applied to a date and a time string.
ApplyValidateDatetime(date_str, time_str, business_hours, blocked_dates) ==
    ex' = Applied("validate_datetime",
                  [date |-> date_str, time |-> time_str,
                   business_hours |-> business_hours, blocked_dates |-> blocked_dates],
                  [valid |-> validate_datetime_with(date_str, time_str, business_hours,
                                                    blocked_dates)])

\* validate_booking_time is applied to a candidate under a configuration with
\* these business hours.
ApplyValidateBookingTime(slot_value, business_hours) ==
    ex' = Applied("validate_booking_time",
                  [slot_value |-> slot_value, business_hours |-> business_hours],
                  [booking_time |-> validate_booking_time_with(slot_value, business_hours)])

(***************************************************************************)
(* DIALOGUE RUNTIME: THE TASK-ENABLEMENT GATE                              *)
(***************************************************************************)

\* SlotSet(name, value) where the value matters.
SlotSetTo(name, value) == <<"SlotSet", name, value>>

\* A configuration without business hours.
NoHours == [start |-> None, end |-> None]

\* What get_task_config gives the gate: a configuration (its enabled flag and
\* its business hours, if any), an empty one, or an exception.
GateConfigs ==
    [kind : {"config"}, enabled : BOOLEAN, business_hours : HoursConfigs \cup {NoHours}]
        \cup {[kind |-> k, enabled |-> TRUE, business_hours |-> NoHours] :
                k \in {"missing", "error"}}

\* The local times of day at which the gate is asked, in seconds.
ClockTimes == {MinuteOfDay(t) * 60 : t \in IsoTimes}

\* ActionCheckTaskEnabled._check_business_hours at the hour current_hour.
check_business_hours(business_hours, current_hour) ==
    IF business_hours = NoHours THEN TRUE
    ELSE /\ HourOf(business_hours.start) <= current_hour
         /\ current_hour < HourOf(business_hours.end)

\* ActionCheckTaskEnabled.run for the task of the intent.
ActionCheckTaskEnabled(task, config) ==
    LET name == "action_check_task_enabled"
        asked == [task |-> task, config |-> config]
        current_hour == now \div 3600
    IN
    ex' =
        IF config.kind = "error" \/ config.kind = "missing"
        THEN Turn(name, asked, <<>>, <<>>, <<>>, <<SlotSetTo("task_enabled", TRUE)>>)
        ELSE IF ~config.enabled
        THEN Turn(name, asked, <<>>, <<>>, <<>>, <<SlotSetTo("task_enabled", FALSE)>>)
        ELSE IF ~check_business_hours(config.business_hours, current_hour)
        THEN Turn(name, asked, <<>>, <<>>, <<"not_available_right_now">>,
                  <<SlotSetTo("task_enabled", FALSE)>>)
        ELSE Turn(name, asked, <<>>, <<>>, <<>>, <<SlotSetTo("task_enabled", TRUE)>>)

\* The longest required_fields list of the model.
MaxFields == 2

\* The field names a configuration lists in required_fields; "notes" has no
\* slot.
FieldNames == {"service_type", "date", "name", "phone", "party_size", "notes"}

\* field_to_slot
field_to_slot(field) ==
    CASE field = "service_type" -> "service_type"
      [] field = "date" -> "booking_date"
      [] field = "time" -> "booking_time"
      [] field = "name" -> "customer_name"
      [] field = "email" -> "customer_email"
      [] field = "phone" -> "customer_phone"
      [] field = "party_size" -> "party_size"
      [] OTHER -> None

\* minimum_slots, in the order of the list.
minimum_slots_list ==
    <<"service_type", "booking_date", "booking_time", "customer_name", "customer_email">>

Range(s) == {s[i] : i \in 1..Len(s)}

\* for slot in minimum_slots: if slot not in slots: slots.append(slot),
\* from the i-th minimum slot on.
RECURSIVE AppendMissing(_, _)
AppendMissing(slot_list, i) ==
    IF i > Len(minimum_slots_list) THEN slot_list
    ELSE AppendMissing(IF minimum_slots_list[i] \in Range(slot_list) THEN slot_list
                       ELSE Append(slot_list, minimum_slots_list[i]),
                       i + 1)

\* ValidateBookingForm.required_slots for a configuration with this
\* required_fields list.
required_slots(required_fields) ==
    LET mapped == SelectSeq(required_fields, LAMBDA f : field_to_slot(f) # None)
        slot_list == [i \in 1..Len(mapped) |-> field_to_slot(mapped[i])]
    IN AppendMissing(slot_list, 1)

\* The required_fields lists of the model.
FieldLists == UNION {[1..n -> FieldNames] : n \in 0..MaxFields}

\* required_slots is asked under a configuration with these required_fields.
ApplyRequiredSlots(required_fields) ==
    ex' = Applied("required_slots", [required_fields |-> required_fields],
                  [slots |-> required_slots(required_fields)])

\* The weekdays table of _parse_next_day and _parse_this_day; date.weekday()
\* counts from Monday = 0.
weekdays ==
    [monday |-> 0, tuesday |-> 1, wednesday |-> 2, thursday |-> 3,
     friday |-> 4, saturday |-> 5, sunday |-> 6]

DayNames == DOMAIN weekdays

\* The relative phrases of the model, lower-cased, as sequences of words.
RelativePhrases ==
    {<<"next", d>> : d \in DayNames} \cup {<<"this", d>> : d \in DayNames}
        \cup {<<"next", "week">>, <<"tomorrow">>, <<"today">>, <<"soon">>}

\* The weekday name a phrase holds, if any.
DayNameIn(text) ==
    IF \E i \in 1..Len(text) : text[i] \in DayNames
    THEN text[CHOOSE i \in 1..Len(text) : text[i] \in DayNames]
    ELSE None

\* No date (Python's None) where a number of days is expected.
NoDate == -1

\* date_parser.parse(text, fuzzy=True): the words that are no date are
\* skipped; a weekday name alone gives the first such weekday on or after
\* the default date (today), and a text without any date raises ValueError.
\* The result is counted in days from today.
DateutilParse(text, today_weekday) ==
    IF DayNameIn(text) # None
    THEN (weekdays[DayNameIn(text)] - today_weekday) % 7
    ELSE NoDate

\* _parse_next_day, in days from today.
parse_next_day(text, today_weekday) ==
    IF DayNameIn(text) # None
    THEN LET days_ahead == weekdays[DayNameIn(text)] - today_weekday IN
         IF days_ahead <= 0 THEN days_ahead + 7 ELSE days_ahead
    ELSE IF \E i \in 1..Len(text) : text[i] = "week"
    THEN LET days_ahead == 7 - today_weekday IN
         IF days_ahead = 0 THEN 7 ELSE days_ahead
    ELSE NoDate

\* _parse_this_day, in days from today.
parse_this_day(text, today_weekday) ==
    IF DayNameIn(text) # None
    THEN LET days_diff == weekdays[DayNameIn(text)] - today_weekday IN
         IF days_diff < 0 THEN days_diff + 7 ELSE days_diff
    ELSE NoDate

\* ValidationUtils.parse_date on a relative phrase, in days from today (NoDate:
\* None): the parse of dateutil first, the relative phrases when it
\* raised ValueError.
parse_relative_date(text, today_weekday) ==
    IF DateutilParse(text, today_weekday) # NoDate
    THEN DateutilParse(text, today_weekday)
    ELSE IF text = <<"today">> THEN 0
    ELSE IF text = <<"tomorrow">> THEN 1
    ELSE IF \E i \in 1..Len(text) : text[i] = "next"
    THEN parse_next_day(text, today_weekday)
    ELSE IF \E i \in 1..Len(text) : text[i] = "this"
    THEN parse_this_day(text, today_weekday)
    ELSE NoDate

\* parse_date is applied to a relative phrase on a day of the week.
ApplyParseDate(text, today_weekday) ==
    ex' = Applied("parse_date", [text |-> text, today_weekday |-> today_weekday],
                  [days |-> parse_relative_date(text, today_weekday)])

(***************************************************************************)
(* RETRIEVAL AND GUARDRAILS                                                *)
(*                                                                         *)
(* Scores and thresholds are in hundredths. A question is its lower-cased  *)
(* text as a sequence of words; a phrase occurs in it when its words occur *)
(* in a row. The text of a retrieved chunk is the set of the words that    *)
(* occur in it.                                                            *)
(***************************************************************************)

\* The thresholds when no environment variable overrides them.
DefaultThresholds == [high |-> 85, medium |-> 70, low |-> 50]

\* float(os.getenv(...)) for each threshold: any value, in any order.
ThresholdValues == {50, 70, 85, 90}

ThresholdConfigs == [high : ThresholdValues, medium : ThresholdValues, low : ThresholdValues]

\* An environment value float() cannot read.
Malformed == [high |-> -1, medium |-> -1, low |-> -1]

\* MAX_RESPONSE_LENGTH and REQUIRE_SOURCE as GuardrailChecker reads them by default.
max_response_length == 1000

require_source == TRUE

stop_words ==
    {"what", "is", "are", "how", "do", "does", "can", "the", "a", "an",
     "your", "you", "i", "me", "my", "we", "our", "to", "for", "of",
     "in", "on", "at", "with", "about", "please", "tell"}

injection_patterns ==
    {<<"ignore", "previous">>, <<"ignore", "above">>, <<"disregard", "instructions">>,
     <<"new", "instructions">>, <<"forget", "everything">>, <<"system", "prompt">>,
     <<"you", "are", "now">>, <<"pretend", "to", "be">>, <<"act", "as", "if">>}

sensitive_patterns ==
    {<<"password">>, <<"api", "key">>, <<"secret">>, <<"credentials">>, <<"internal">>,
     <<"employee">>, <<"salary">>, <<"personal", "data">>}

\* pattern in question_lower
Occurs(pattern, question) ==
    \E i \in 1..Len(question) :
        /\ i + Len(pattern) - 1 <= Len(question)
        /\ SubSeq(question, i, i + Len(pattern) - 1) = pattern

\* The questions of the model.
Questions ==
    {<<"what", "are", "your", "opening", "hours">>,
     <<"ignore", "previous", "instructions", "what", "are", "your", "opening", "hours">>,
     <<"ignore", "previous", "instructions">>,
     <<"you", "are", "now", "my", "hours">>,
     <<"tell", "me", "the", "opening", "hours", "password">>,
     <<"what", "is", "the", "salary">>,
     <<"parking">>,
     <<"what", "are", "your">>}

\* A chunk as KnowledgeBaseClient.search returns it.
Chunk(content, length, source, score) ==
    [content |-> content, length |-> length, source |-> source, score |-> score]

HoursText == {"opening", "hours", "monday", "friday", "9", "18"}

PricesText == {"prices", "consultation", "50"}

\* The first chunk of a retrieval, by score.
TopChunks(scores) ==
    {Chunk(HoursText, 200, "FAQ", s) : s \in scores}
        \cup {Chunk(HoursText, 1500, "", s) : s \in scores}

\* _check_relevance
check_relevance(question, retrieved_content) ==
    IF retrieved_content = <<>>
    THEN [is_relevant |-> FALSE, message |-> "No content to check"]
    ELSE LET top_content == retrieved_content[1].content
             question_words == Range(question) \ stop_words
             matches == Cardinality({w \in question_words : w \in top_content})
         IN
         IF Cardinality(question_words) > 0 /\ matches * 10 < 2 * Cardinality(question_words)
         THEN [is_relevant |-> FALSE,
               message |-> "Content may not be relevant to your question"]
         ELSE [is_relevant |-> TRUE, message |-> None]

\* _check_safety
check_safety(question, retrieved_content) ==
    IF \E pattern \in injection_patterns : Occurs(pattern, question)
    THEN [is_safe |-> FALSE,
          message |-> "I can only answer questions about our business and services."]
    ELSE IF \E pattern \in sensitive_patterns : Occurs(pattern, question)
    THEN [is_safe |-> FALSE,
          message |-> "I cannot provide information about internal or sensitive data."]
    ELSE [is_safe |-> TRUE, message |-> None]

\* Check 1 of GuardrailChecker.check: the tier of the confidence.
ConfidenceTier(thresholds, confidence) ==
    IF confidence >= thresholds.high THEN "high"
    ELSE IF confidence >= thresholds.medium THEN "medium"
    ELSE IF confidence >= thresholds.low THEN "low"
    ELSE "below"

\* GuardrailChecker.check for a checker built with these thresholds.
check(thresholds, question, retrieved_content, confidence) ==
    LET tier == ConfidenceTier(thresholds, confidence)
        result ==
            [should_answer |-> tier \in {"high", "medium"},
             needs_clarification |-> tier = "low",
             confidence_level |-> IF tier = "below" THEN "low" ELSE tier,
             message |-> CASE tier = "low" ->
                                "Low confidence - consider asking for clarification"
                           [] tier = "below" -> "Confidence too low to provide answer"
                           [] OTHER -> None,
             warnings |-> IF tier = "medium"
                          THEN {"Medium confidence - may need verification"} ELSE {}]
    IN
    IF tier = "below" THEN result
    ELSE IF retrieved_content = <<>>
    THEN [result EXCEPT !.should_answer = FALSE, !.message = "No relevant content found"]
    ELSE
    LET top_result == retrieved_content[1]
        checked ==
            [result EXCEPT !.warnings =
                @ \cup (IF require_source /\ top_result.source = ""
                        THEN {"Source information missing"} ELSE {})
                  \cup (IF top_result.length > max_response_length
                        THEN {"Content truncated due to length"} ELSE {})]
        relevance_check == check_relevance(question, retrieved_content)
        safety_check == check_safety(question, retrieved_content)
    IN
    IF ~relevance_check.is_relevant
    THEN [checked EXCEPT !.should_answer = FALSE, !.needs_clarification = TRUE,
                         !.message = relevance_check.message]
    ELSE IF ~safety_check.is_safe
    THEN [checked EXCEPT !.should_answer = FALSE, !.message = safety_check.message]
    ELSE checked

\* The scores a caller may pass to check.
Confidences == {40, 60, 75, 87, 95}

\* check is applied to a question, a retrieval and a confidence.
ApplyCheck(thresholds, question, retrieved_content, confidence) ==
    ex' = Applied("check",
                  [thresholds |-> thresholds, question |-> question,
                   retrieved_content |-> retrieved_content, confidence |-> confidence],
                  check(thresholds, question, retrieved_content, confidence))

\* What KnowledgeBaseClient.search(top_k = 3, min_score = 0.65) gives the
\* answer action: no chunk (none scores 0.65 or the search failed), or the
\* chunks that score at least 0.65, best first.
min_score == 65

SearchScores == {s \in {40, 60, 68, 75, 87, 95} : s >= min_score}

SecondChunks(top) == {[content |-> PricesText, length |-> 100, source |-> "Pricing", score |-> s] :
                         s \in {t \in {68, 75} : t <= top.score}}

SearchResults ==
    {<<>>}
        \cup {<<c>> : c \in TopChunks(SearchScores)}
        \cup UNION {{<<c, d>> : d \in SecondChunks(c)} : c \in TopChunks(SearchScores)}

\* The text of a chunk, named by its source and length.
TextOf(chunk) == IF chunk.content = HoursText THEN "hours text" ELSE "prices text"

\* _construct_answer
construct_answer(results) ==
    IF results = <<>> THEN "I couldn't find specific information about that."
    ELSE IF Len(results) = 1 \/ results[1].score > 85 THEN TextOf(results[1])
    ELSE IF Len(results) > 1 /\ results[2].score > 70
              /\ TextOf(results[2]) # TextOf(results[1])
    THEN TextOf(results[1]) \o "\n\n" \o TextOf(results[2])
    ELSE TextOf(results[1])

\* A message given to the dispatcher: a response template of the domain, or
\* a text (an answer goes with the source it cites).
Utter(response, text, source) == [response |-> response, text |-> text, source |-> source]

\* The result of a run in which check was not called.
NoCheck ==
    [should_answer |-> FALSE, needs_clarification |-> FALSE, confidence_level |-> "none",
     message |-> None, warnings |-> {}]

\* ActionAnswerQuestion.run for a question, given what the search returns and
\* the thresholds in the environment of the action server.
ActionAnswerQuestion_run(thresholds, question, results) ==
    LET Done(guardrail, messages, events) ==
            [guardrail |-> guardrail, messages |-> messages, events |-> events]
    IN
    IF results = <<>>
    THEN Done(NoCheck, <<Utter("utter_no_answer_found", None, None)>>,
              <<SlotSetTo("qa_answer", None), SlotSetTo("qa_source", None)>>)
    ELSE IF thresholds = Malformed
    THEN \* GuardrailChecker() raises ValueError
         Done(NoCheck,
              <<Utter(None, "I'm having trouble finding that information right now.", None)>>,
              <<>>)
    ELSE
    LET top_result == results[1]
        guardrail_result == check(thresholds, question, results, top_result.score)
        answer == construct_answer(results)
    IN
    IF guardrail_result.should_answer
    THEN Done(guardrail_result, <<Utter(None, answer, top_result.source)>>,
              <<SlotSetTo("qa_answer", answer), SlotSetTo("qa_source", top_result.source)>>)
    ELSE IF guardrail_result.needs_clarification
    THEN Done(guardrail_result, <<Utter("utter_ask_clarification", None, None)>>, <<>>)
    ELSE Done(guardrail_result, <<Utter("utter_no_answer_found", None, None)>>,
              <<SlotSetTo("qa_answer", None), SlotSetTo("qa_source", None)>>)

\* The action is run on what the search returned.
ActionAnswerQuestion(thresholds, question, results) ==
    ex' = Applied("action_answer_question",
                  [thresholds |-> thresholds, question |-> question, results |-> results],
                  ActionAnswerQuestion_run(thresholds, question, results))

\* What the vector store holds for a query, before the score filter: nothing,
\* or one chunk with its similarity score.
RawScores == {40, 50, 60, 68, 75, 87, 95}

Retrievals == {<<>>} \cup {<<c>> : c \in TopChunks(RawScores)}

\* KnowledgeBaseClient.search(query, top_k=3, min_score=0.65): the chunks
\* whose score reaches min_score, best first.
search(retrieved) == SelectSeq(retrieved, LAMBDA c : c.score >= min_score)

\* The action is run on a question for which the vector store holds this.
AnswerRetrieved(thresholds, question, retrieved) ==
    ex' = Applied("answer_retrieved",
                  [thresholds |-> thresholds, question |-> question, retrieved |-> retrieved],
                  ActionAnswerQuestion_run(thresholds, question, search(retrieved)))

(***************************************************************************)
(* LLM DISPATCH                                                            *)
(***************************************************************************)

\* LLMProvider
Providers == {"openai", "azure_openai", "anthropic", "google", "ollama", "custom"}

\* What happens when a provider is called: it answers, its API reports an
\* error, the call times out, its host cannot be reached, or the client
\* library of the provider is not installed.
ProviderOutcomes == {"ok", "api_error", "timeout", "unreachable", "missing_library"}

\* generate returns a result dictionary, or raises.
Returned(success, response, error) ==
    [kind |-> "return", success |-> success, response |-> response, error |-> error,
     exception |-> None]

Raised(exception) ==
    [kind |-> "raise", success |-> FALSE, response |-> None, error |-> None,
     exception |-> exception]

\* A _call_* method whose whole body, the import included, is inside
\* try/except Exception.
CallGuarded(outcome) ==
    IF outcome = "ok" THEN {Returned(TRUE, "llm answer", None)}
    ELSE {Returned(FALSE, None, outcome)}

\* LLMClient._call_ollama of the action server: aiohttp is imported before
\* the try, the status of the response is not looked at, and an error body
\* in JSON is read like an answer (its message.content is absent).
runtime_call_ollama(outcome) ==
    CASE outcome = "missing_library" -> {Raised("ImportError")}
      [] outcome = "ok" -> {Returned(TRUE, "llm answer", None)}
      [] outcome = "api_error" -> {Returned(TRUE, "", None), Returned(FALSE, None, outcome)}
      [] OTHER -> {Returned(FALSE, None, outcome)}

\* LLMClient.generate of the action server: the results it may give.
runtime_generate(provider, outcome) ==
    CASE provider = "openai" -> CallGuarded(outcome)
      [] provider = "anthropic" -> CallGuarded(outcome)
      [] provider = "ollama" -> runtime_call_ollama(outcome)
      [] OTHER -> CallGuarded(outcome)

\* The LLM configuration row of the admin database.
StoredLLMConfigs ==
    [enabled : BOOLEAN, fallback_to_llm : BOOLEAN, confidence_threshold : {60, 70},
     provider : Providers, api_key : {None, "sk-live-0123456789"},
     use_knowledge_base : BOOLEAN]

\* GET /api/llm/config: the stored configuration without its api_key.
get_config(stored) ==
    [status |-> 200,
     config |->
        [enabled |-> stored.enabled, fallback_to_llm |-> stored.fallback_to_llm,
         confidence_threshold |-> stored.confidence_threshold,
         provider |-> stored.provider, use_knowledge_base |-> stored.use_knowledge_base,
         api_key_set |-> stored.api_key # None]]

\* The admin API did not answer 200, or the request failed: get_llm_config
\* of the action server returns None.
NoLLMConfig ==
    [status |-> 503,
     config |->
        [enabled |-> FALSE, fallback_to_llm |-> FALSE, confidence_threshold |-> 0,
         provider |-> None, use_knowledge_base |-> FALSE, api_key_set |-> FALSE]]

\* llm_config.get("api_key")
ApiKeyOf(llm_config) ==
    IF "api_key" \in DOMAIN llm_config THEN llm_config.api_key ELSE None

\* KnowledgeBaseClient.search(top_k = 3) with its default min_score of 0.5
\* gives the fallback no chunk, or the chunks that score at least 0.5.
FallbackResults == {<<>>} \cup {<<c>> : c \in TopChunks({s \in {40, 60, 87} : s >= 50})}

\* The context built from the chunks.
ContextOf(results) ==
    IF results = <<>> THEN ""
    ELSE "[" \o results[1].source \o "]: " \o TextOf(results[1])

GeneralKnowledgeNote == "\n\n_Note: I'm answering based on my general knowledge._"

\* ActionLLMFallback.run for a message classified with this confidence, given
\* what the admin API answers, what the search returns and what the provider
\* does when it is called.
ActionLLMFallback(answer, confidence, results, outcome, result) ==
    LET args == [answer |-> answer, confidence |-> confidence, results |-> results,
                 outcome |-> outcome]
        llm_config == answer.config
        Done(called, context, messages, events) ==
            ex' = Applied("action_llm_fallback", args,
                          [llm_called |-> called, context |-> context,
                           messages |-> messages, events |-> events])
        Default(called, context) ==
            Done(called, context, <<Utter("utter_default", None, None)>>, <<>>)
    IN
    IF answer.status # 200 THEN Default(FALSE, "")
    ELSE IF ~llm_config.fallback_to_llm THEN Default(FALSE, "")
    ELSE IF ~llm_config.enabled THEN Default(FALSE, "")
    ELSE IF confidence >= llm_config.confidence_threshold THEN Default(FALSE, "")
    ELSE IF ApiKeyOf(llm_config) = None /\ llm_config.provider # "ollama"
    THEN Default(FALSE, "")
    ELSE
    LET context == IF llm_config.use_knowledge_base THEN ContextOf(results) ELSE ""
    IN
    /\ result \in runtime_generate(llm_config.provider, outcome)
    /\ IF result.kind = "return" /\ result.success
       THEN LET response_text ==
                    IF context = "" THEN result.response \o GeneralKnowledgeNote
                    ELSE result.response
            IN Done(TRUE, context, <<Utter(None, response_text, None)>>,
                    <<SlotSetTo("llm_response", response_text)>>)
       ELSE Default(TRUE, context)

\* ActionLLMResponse.run for a user message, given what the admin API
\* answers and what the provider does when it is called; prompt is the text
\* handed to LLMClient.generate, <<>> when the client is not called.
ActionLLMResponse(answer, user_message, outcome, result) ==
    LET args == [answer |-> answer, user_message |-> user_message, outcome |-> outcome]
        llm_config == answer.config
        Done(called, prompt, messages, events) ==
            ex' = Applied("action_llm_response", args,
                          [llm_called |-> called, prompt |-> prompt,
                           messages |-> messages, events |-> events])
        Unavailable(called, prompt) ==
            Done(called, prompt, <<Utter("utter_llm_unavailable", None, None)>>, <<>>)
    IN
    IF answer.status # 200 THEN Unavailable(FALSE, <<>>)
    ELSE IF ~llm_config.enabled THEN Unavailable(FALSE, <<>>)
    ELSE IF ApiKeyOf(llm_config) = None /\ llm_config.provider # "ollama"
    THEN Unavailable(FALSE, <<>>)
    ELSE
    /\ result \in runtime_generate(llm_config.provider, outcome)
    /\ IF result.kind = "return" /\ result.success
       THEN Done(TRUE, user_message, <<Utter(None, result.response, None)>>,
                 <<SlotSetTo("llm_response", result.response)>>)
       ELSE Unavailable(TRUE, user_message)

\* LLMClient of the admin API. _call_openai, _call_anthropic and _call_google
\* turn a missing client library into an HTTPException.
admin_call_with_import_check(outcome) ==
    IF outcome = "missing_library" THEN {Raised("HTTPException")}
    ELSE CallGuarded(outcome)

\* _call_ollama of the admin API: httpx is imported before the try; every
\* failure of a request is caught.
admin_call_ollama(outcome) ==
    IF outcome = "missing_library" THEN {Raised("ImportError")}
    ELSE CallGuarded(outcome)

\* LLMClient.generate of the admin API: the results it may give.
admin_generate(provider, outcome) ==
    CASE provider = "openai" -> admin_call_with_import_check(outcome)
      [] provider = "azure_openai" -> CallGuarded(outcome)
      [] provider = "anthropic" -> admin_call_with_import_check(outcome)
      [] provider = "ollama" -> admin_call_ollama(outcome)
      [] provider = "google" -> admin_call_with_import_check(outcome)
      [] OTHER -> {Raised("ValueError")}

\* The two clients.
Clients == {"admin", "runtime"}

generate(client, provider, outcome) ==
    IF client = "admin" THEN admin_generate(provider, outcome)
    ELSE runtime_generate(provider, outcome)

\* generate is called on a client configured for a provider.
ApplyGenerate(client, provider, outcome, result) ==
    /\ result \in generate(client, provider, outcome)
    /\ ex' = Applied("generate",
                     [client |-> client, provider |-> provider, outcome |-> outcome],
                     result)

\* The message sequence LLMClient.generate builds (both clients).
BuildMessages(system_prompt, context, user_message) ==
    <<[role |-> "system", content |-> system_prompt]>>
        \o (IF context # ""
            THEN <<[role |-> "system",
                    content |-> "Use this context to answer the user's question:\n\n"
                                   \o context]>>
            ELSE <<>>)
        \o <<[role |-> "user", content |-> user_message]>>

\* What _call_anthropic passes to client.messages.create (both clients):
\* system is the content of the first message, messages are those whose role
\* is not system.
anthropic_request(messages) ==
    [system |-> IF messages[1].role = "system" THEN messages[1].content ELSE "",
     messages |-> SelectSeq(messages, LAMBDA m : m.role # "system")]

\* generate is called on a client configured for anthropic.
ApplyAnthropic(system_prompt, context, user_message) ==
    ex' = Applied("call_anthropic",
                  [system_prompt |-> system_prompt, context |-> context,
                   user_message |-> user_message],
                  anthropic_request(BuildMessages(system_prompt, context, user_message)))

\* API keys as sequences of characters; the empty sequence is no key (None).
NoKey == <<>>

ApiKeys ==
    {NoKey,
     <<"s", "k", "1">>,
     <<"s", "k", "-", "1", "2", "3", "4">>,
     <<"s", "k", "-", "1", "2", "3", "4", "5">>,
     <<"s", "k", "-", "1", "2", "3", "4", "5", "6">>,
     <<"s", "k", "-", "l", "i", "v", "e", "0", "1", "2", "3", "4">>}

\* mask_api_key; None is the empty sequence.
mask_api_key(key) ==
    IF key = NoKey \/ Len(key) < 8 THEN NoKey
    ELSE SubSeq(key, 1, 4) \o [i \in 1..(Len(key) - 8) |-> "*"]
            \o SubSeq(key, Len(key) - 3, Len(key))

\* The key fields of the configuration in the response of GET /api/llm/config
\* and of PUT /api/llm/config, for the key in the configuration row after the
\* request: api_key itself is popped. PUT adds the two fields only when a
\* key is set; without a key they are absent from its response, which reads
\* here as FALSE and no mask.
KeyFields(verb, api_key) ==
    IF api_key # NoKey
    THEN [api_key_set |-> TRUE, api_key_masked |-> mask_api_key(api_key)]
    ELSE [api_key_set |-> FALSE, api_key_masked |-> NoKey]

\* GET or PUT /api/llm/config on a row holding stored_key; a PUT may carry a
\* new key, which replaces the stored one.
ApplyConfigRequest(verb, stored_key, new_key) ==
    LET api_key == IF verb = "PUT" /\ new_key # NoKey THEN new_key ELSE stored_key
    IN ex' = Applied("llm_config",
                     [verb |-> verb, stored_key |-> stored_key, new_key |-> new_key,
                      api_key |-> api_key],
                     KeyFields(verb, api_key))

(***************************************************************************)
(* AUDIT LOG                                                               *)
(*                                                                         *)
(* A metadata key is the sequence of the words its name is made of         *)
(* (api_key is <<"api", "key">>); a metadata map is a function from keys   *)
(* to values, and the empty map stands for None as well.                   *)
(***************************************************************************)

MaxRecords == 2

pii_fields ==
    {<<"email">>, <<"phone">>, <<"name">>, <<"customer", "name">>, <<"attendee", "email">>}

remove_fields == {<<"password">>, <<"token">>, <<"secret">>, <<"key">>}

\* key.lower()
Lower(key) == [i \in 1..Len(key) |-> IF key[i] = "Email" THEN "email" ELSE key[i]]

\* hashlib.sha256(str(value).encode()).hexdigest()[:16]
sha256_16(value) ==
    CASE value = "jane@ex.com" -> "a8cfcd74832004951b4408cdb0a5dbcd"
      [] value = "555-123-4567" -> "3c0f1a9d2be47a60"
      [] OTHER -> "e3b0c44298fc1c14"

NoMetadata == [k \in {} |-> ""]

Meta(key, value) == [k \in {key} |-> value]

\* The metadata maps the callers of log_action may pass.
Metadatas ==
    {NoMetadata,
     Meta(<<"email">>, "jane@ex.com"),
     Meta(<<"Email">>, "jane@ex.com"),
     Meta(<<"email">>, ""),
     Meta(<<"customer", "email">>, "jane@ex.com"),
     Meta(<<"phone">>, "555-123-4567"),
     Meta(<<"reason">>, "call me on 555-123-4567"),
     Meta(<<"password">>, "hunter2"),
     Meta(<<"api", "key">>, "hunter2"),
     Meta(<<"auth", "token">>, "hunter2"),
     [k \in {<<"new", "date">>, <<"new", "time">>} |->
         IF k = <<"new", "date">> THEN "2024-01-16" ELSE "14:00"]}

\* The key under which _sanitize_metadata keeps an entry.
SanitizedKey(metadata, key) ==
    IF Lower(key) \in pii_fields /\ metadata[key] # "" THEN key \o <<"hash">> ELSE key

\* _sanitize_metadata
sanitize_metadata(metadata) ==
    LET kept == {key \in DOMAIN metadata : Lower(key) \notin remove_fields}
        source(out) == CHOOSE key \in kept : SanitizedKey(metadata, key) = out
    IN
    [out \in {SanitizedKey(metadata, key) : key \in kept} |->
        IF out = source(out) THEN metadata[out] ELSE sha256_16(metadata[source(out)])]

\* What the two sinks, the process logger and the module state of
\* AuditLogger hold, and the history of the calls: whether the last one
\* raised, the entry each built, and whether each sink failed in it.
NoAudit ==
    [db_enabled |-> TRUE, pool |-> FALSE, database |-> <<>>, file |-> <<>>, logger |-> <<>>,
     calls |-> 0, raised |-> FALSE, passed |-> <<>>, db_failed |-> <<>>,
     file_failed |-> <<>>]

\* What the database sink does in a call: the pool cannot be created (then
\* database logging is switched off), the INSERT fails, or it succeeds.
DbOutcomes == {"ok", "pool_error", "insert_error"}

\* What the file sink does in a call.
FileOutcomes == {"ok", "error"}

\* _log_to_database without its try/except.
log_to_database_Uncaught(enabled, pool, db_outcome) ==
    IF ~enabled THEN "skipped"
    ELSE IF ~pool /\ db_outcome = "pool_error" THEN "no pool"
    ELSE IF db_outcome = "insert_error" THEN "raised"
    ELSE "written"

\* _log_to_database, when database logging is enabled: _get_db_pool catches
\* its own failure and returns no pool; a failure of the INSERT is caught.
log_to_database(enabled, pool, db_outcome) ==
    IF ~enabled THEN "skipped"
    ELSE IF ~pool /\ db_outcome = "pool_error" THEN "no pool"
    ELSE IF db_outcome = "insert_error" THEN "caught"
    ELSE "written"

\* _log_to_file: every failure is caught.
log_to_file(file_outcome) == IF file_outcome = "ok" THEN "written" ELSE "caught"

\* log_action: the entry is built, handed to the database sink, then to the
\* file sink (both enabled by default), then to the process logger. An
\* exception that leaves a sink ends the call there.
log_action(action, status, metadata, db_outcome, file_outcome) ==
    LET log_entry == [action |-> action, status |-> status,
                      metadata |-> sanitize_metadata(metadata)]
        in_db == log_to_database(ex.db_enabled, ex.pool, db_outcome)
        in_file == IF in_db = "raised" THEN "skipped" ELSE log_to_file(file_outcome)
        raised == "raised" \in {in_db, in_file}
    IN
    /\ ex.calls < MaxRecords
    /\ ex' = [ex EXCEPT
                !.db_enabled = @ /\ in_db # "no pool",
                !.pool = @ \/ in_db \in {"written", "caught", "raised"},
                !.database = IF in_db = "written" THEN Append(@, log_entry) ELSE @,
                !.file = IF in_file = "written" THEN Append(@, log_entry) ELSE @,
                !.logger = IF raised THEN @ ELSE Append(@, [action |-> action, status |-> status]),
                !.calls = @ + 1,
                !.raised = raised,
                !.passed = Append(@, log_entry),
                !.db_failed = Append(@, in_db \in {"no pool", "caught", "raised"}),
                !.file_failed = Append(@, in_file # "written")]

(***************************************************************************)
(* CONFIGURATION CACHE: THE OBJECTS IT HANDS OUT                           *)
(*                                                                         *)
(* Configurations are Python dictionaries, held by reference. The heap     *)
(* maps the identity of each dictionary to its content; the local map of   *)
(* a process holds identities, and so does a consumer to which             *)
(* get_task_config returned.                                               *)
(***************************************************************************)

MaxObjects == 4

NoObject == 0

\* The content of a configuration, as far as a consumer can change it.
ConfigContents == [enabled : BOOLEAN]

NoHeap ==
    [heap |-> [id \in 1..MaxObjects |-> [enabled |-> TRUE]], allocated |-> 0,
     local |-> [t \in Tasks |-> NoObject], held |-> [c \in Callers |-> NoObject],
     step |-> "none"]

\* get_task_config for a consumer, in one process: a valid local entry is
\* returned itself (return self._cache[cache_key]); otherwise a dictionary is
\* built, by json.loads of the shared cache's value or by response.json() of
\* the admin API's answer, stored in the local map and returned, the same
\* object; or the built-in default is built and returned without being
\* stored. layer is the layer that answers when the local entry is absent or
\* expired.
GetTaskConfigObject(c, task, expired, layer, content) ==
    IF ex.local[task] # NoObject /\ ~expired
    THEN ex' = [ex EXCEPT !.held[c] = ex.local[task], !.step = "get"]
    ELSE /\ ex.allocated < MaxObjects
         /\ LET id == ex.allocated + 1 IN
            ex' = [ex EXCEPT
                     !.allocated = id,
                     !.heap[id] = IF layer = "default" THEN [enabled |-> TRUE] ELSE content,
                     !.local[task] = IF layer = "default" THEN @ ELSE id,
                     !.held[c] = id,
                     !.step = "get"]

\* A consumer changes the configuration it was given (config["enabled"] = ...).
ConsumerModifies(c, enabled) ==
    /\ ex.held[c] # NoObject
    /\ ex.heap[ex.held[c]].enabled # enabled
    /\ ex' = [ex EXCEPT !.heap[ex.held[c]].enabled = enabled, !.step = "modify"]

\* What a get_task_config call on a valid local entry returns for a task.
CachedValue(task) ==
    IF ex.local[task] = NoObject THEN [cached |-> FALSE, enabled |-> FALSE]
    ELSE [cached |-> TRUE, enabled |-> ex.heap[ex.local[task]].enabled]

(***************************************************************************)
(* CONFIGURATION CACHE: INVALIDATION OVER TWO TASKS                        *)
(***************************************************************************)

\* History: the invalidation the last step made, if it was one, and whether
\* the process held a local entry for the task before it.
NoMark == [op |-> "none", proc |-> "", task |-> "", del |-> "", had |-> FALSE]

Marked(op, p, task, del, had) ==
    ex' = [op |-> op, proc |-> p, task |-> task, del |-> del, had |-> had]

(***************************************************************************)
(* DIALOGUE RUNTIME: THE EVENT LISTS ACTIONS RETURN                        *)
(***************************************************************************)

\* slots_to_reset of ActionResetSlots, in the order of the list.
slots_to_reset ==
    <<"service_type", "booking_date", "booking_time", "customer_name",
      "customer_email", "customer_phone", "party_size", "meeting_type",
      "meeting_date", "meeting_time", "meeting_duration", "attendee_email",
      "meeting_notes", "booking_id", "current_booking", "confirmed",
      "qa_answer", "qa_source">>

EventSlotNames == {slots_to_reset[i] : i \in 1..Len(slots_to_reset)}

\* The slot maps a turn can start from: some slots filled, the others None.
EventSlotStates ==
    { [n \in EventSlotNames |-> IF n \in DOMAIN f THEN f[n] ELSE None] :
        f \in [service_type : {"Consultation", None},
               booking_date : {"2024-01-16", None},
               booking_time : {"14:00", None},
               customer_name : {"Ann", None},
               customer_email : {"ann@example.com", None},
               booking_id : BookingIds,
               qa_answer : {"We open at nine.", None}] }

\* A SlotSet that accumulates: a slot that already holds a value is marked as
\* holding several.
ApplyEvent_Accumulates(s, e) ==
    IF e[1] = "SlotSet"
    THEN [s EXCEPT ![e[2]] = IF @ = None \/ e[3] = None THEN e[3] ELSE "several"]
    ELSE s

\* What one event does to the slot map: SlotSet(key, value) gives the slot
\* the value, FollowupAction leaves the slots alone.
ApplyEvent(s, e) ==
    IF e[1] = "SlotSet" THEN [s EXCEPT ![e[2]] = e[3]] ELSE s

\* The events of a list, applied in order.
RECURSIVE ApplyEvents(_, _)
ApplyEvents(s, events) ==
    IF events = <<>> THEN s
    ELSE ApplyEvents(ApplyEvent(s, Head(events)), Tail(events))

\* The events ActionCreateBooking.run returns; current_booking takes the
\* whole response, written "response".
CreateBookingEvents(s, result) ==
    IF MissingInformation(s) THEN <<FollowupAction("booking_form")>>
    ELSE IF result.kind = "success"
    THEN <<SlotSetTo("current_booking", "response"),
           SlotSetTo("booking_id", result.booking_id)>>
    ELSE <<>>

\* The events ActionCheckBookingStatus.run returns.
CheckBookingStatusEvents(s, entity, response) ==
    LET booking_id == IF s["booking_id"] # None THEN s["booking_id"] ELSE entity
        get(v) == IF v = None THEN "Unknown" ELSE v
    IN
    IF booking_id = None THEN <<FollowupAction("booking_lookup_form")>>
    ELSE IF response.success
    THEN <<SlotSetTo("current_booking", "booking"),
           SlotSetTo("booking_id", booking_id),
           SlotSetTo("service_type", get(response.service_type)),
           SlotSetTo("booking_date", get(response.date)),
           SlotSetTo("booking_time", get(response.time))>>
    ELSE <<SlotSetTo("booking_id", None)>>

\* The events ActionResetSlots.run returns.
ResetSlotsEvents ==
    [i \in 1..Len(slots_to_reset) |-> SlotSetTo(slots_to_reset[i], None)]

\* The events ActionExtractDate.run returns.
ExtractDateEvents(value) ==
    LET date == IF value = None THEN None ELSE parse_date(value) IN
    IF date # None THEN <<SlotSetTo("booking_date", date)>> ELSE <<>>

NoEvents == [action |-> "none", events |-> <<>>]

\* A turn: the action returns its events and the tracker applies them.
TrackerApplies(action, events) ==
    /\ ex' = [action |-> action, events |-> events]
    /\ slots' = ApplyEvents(slots, events)

(***************************************************************************)
(* AUDIT LOG: THE DATABASE POOL                                            *)
(***************************************************************************)

\* The log_action calls of one process that may be in flight together.
LogCallers == {"a1", "a2", "a3"}

\* The calls each of them makes.
MaxCalls == 2

\* _db_pool = None
NoPool == 0

\* The class attributes _db_pool and _db_enabled, the number of pools
\* asyncpg.create_pool has made, and for each caller where it is in
\* _log_to_database, how many calls it has made and the pool its last call got.
NoPoolState ==
    [db_pool |-> NoPool, db_enabled |-> TRUE, created |-> 0,
     pc |-> [c \in LogCallers |-> "idle"],
     calls |-> [c \in LogCallers |-> 0],
     got |-> [c \in LogCallers |-> NoPool]]

\* _log_to_database calls _get_db_pool, which runs to its first await: with
\* no pool yet and the database enabled it starts asyncpg.create_pool,
\* otherwise it returns cls._db_pool at once.
GetDbPoolStart(c) ==
    /\ ex.pc[c] = "idle"
    /\ ex.calls[c] < MaxCalls
    /\ ex' = IF ex.db_pool = NoPool /\ ex.db_enabled
             THEN [ex EXCEPT !.pc[c] = "create_pool", !.calls[c] = @ + 1]
             ELSE [ex EXCEPT !.calls[c] = @ + 1, !.got[c] = ex.db_pool]

\* await asyncpg.create_pool(...) is over: a new pool is assigned to
\* cls._db_pool, or the failure disables the database sink.
CreatePoolReturns(c, ok) ==
    /\ ex.pc[c] = "create_pool"
    /\ ex' = IF ok
             THEN [ex EXCEPT !.created = @ + 1, !.db_pool = ex.created + 1,
                             !.pc[c] = "create_table"]
             ELSE [ex EXCEPT !.db_enabled = FALSE, !.pc[c] = "idle",
                             !.got[c] = ex.db_pool]

\* The CREATE TABLE IF NOT EXISTS on a connection of cls._db_pool is over;
\* _get_db_pool returns cls._db_pool.
CreateTableReturns(c, ok) ==
    /\ ex.pc[c] = "create_table"
    /\ ex' = [ex EXCEPT !.db_enabled = IF ok THEN @ ELSE FALSE,
                        !.pc[c] = "idle", !.got[c] = ex.db_pool]

(***************************************************************************)
(* BOOKING: ONE RUN OF action_create_booking AGAINST THE BACKEND           *)
(***************************************************************************)

\* The run at rest: where it is, and the bookings the backend has created
\* for its requests.
NoBooking == [pc |-> "start", bookings |-> 0]

\* Whether the backend created a booking for a POST /bookings with outcome o.
\* A 2xx response says it did; another response says it did not; a request
\* that timed out or lost its connection may have been processed or not, and
\* the payload carries nothing by which the backend could recognise a repeat.
MayHaveCreated(o) ==
    IF o.kind = "response"
    THEN {o.status >= 200 /\ o.status < 300}
    ELSE BOOLEAN

\* ActionCreateBooking.run up to api_client.create_booking(booking_payload).
CreateBookingStarts ==
    /\ ex.pc = "start"
    /\ IF MissingInformation(slots)
       THEN /\ ex' = [ex EXCEPT !.pc = "returned"]
            /\ slots' = ApplyEvents(slots, CreateBookingEvents(slots, [kind |-> "failure", booking_id |-> None]))
            /\ bc' = bc
       ELSE /\ ex' = [ex EXCEPT !.pc = "calling"]
            /\ StartCall("create_booking")
            /\ slots' = slots

\* One pass of the client's retry loop for the POST, and what the backend did
\* with the request.
CreateBookingAttempt(o, created) ==
    /\ ex.pc = "calling"
    /\ Attempt(o)
    /\ created \in MayHaveCreated(o)
    /\ ex' = [ex EXCEPT !.bookings = IF created THEN @ + 1 ELSE @]
    /\ slots' = slots

\* The client returned its envelope; the action returns its events.
CreateBookingReturns ==
    LET result == IF bc.result.success
                  THEN [kind |-> "success", booking_id |-> "BK-1234-5678"]
                  ELSE [kind |-> "failure", booking_id |-> None]
    IN
    /\ ex.pc = "calling"
    /\ bc.pc = "done"
    /\ ex' = [ex EXCEPT !.pc = "returned"]
    /\ slots' = ApplyEvents(slots, CreateBookingEvents(slots, result))
    /\ bc' = bc

(***************************************************************************)
(* CONFIGURATION CACHE: WHAT SURVIVES AN INVALIDATION                      *)
(***************************************************************************)

\* History kept beside the cache: for every local entry, for every shared key
\* and for every admin request under way, whether the value it holds (or will
\* bring) was fetched before an invalidation of its key that has completed
\* since: "no", "kept" (a cached value the invalidation did not remove) or
\* "inflight" (the answer of a request that was under way when the
\* invalidation ran); and the mark of the value the last call returned from
\* a cache.
NoTaint ==
    [local |-> [p \in Procs |-> [k \in RuntimeKeys |-> "no"]],
     shared |-> [k \in RuntimeKeys |-> "no"],
     request |-> [c \in Callers |-> "no"],
     returned |-> "no"]

\* get_task_config up to its first suspension.
TaintGetStart(c, task, rd) ==
    LET p == ProcOf(c)
        key == RuntimeKey(task)
    IN
    ex' = IF IsCacheValid(p, key)
          THEN [ex EXCEPT !.returned = ex.local[p][key]]
          ELSE IF rd = "up" /\ RedisGet(key) # NoCfg
          THEN [ex EXCEPT !.local[p][key] = ex.shared[key], !.returned = ex.shared[key]]
          ELSE [ex EXCEPT !.request[c] = "no", !.returned = "no"]

\* get_task_config after the admin API answered: _update_cache stores the
\* answer of this request.
TaintGetFinish(c, wr) ==
    LET p == ProcOf(c)
        key == RuntimeKey(pending[c].task)
    IN
    ex' = IF pending[c].resp # NoCfg
          THEN [ex EXCEPT !.local[p][key] = ex.request[c],
                          !.shared[key] = IF wr = "up" THEN ex.request[c] ELSE @,
                          !.returned = "no"]
          ELSE [ex EXCEPT !.returned = "no"]

\* invalidate_cache(task) in process p has completed: what it removed is gone,
\* what it left in place and what is on its way dates from before it.
TaintInvalidate(p, task, del) ==
    LET key == RuntimeKey(task) IN
    ex' = [ex EXCEPT
             !.local = [q \in Procs |->
                          [ex.local[q] EXCEPT
                             ![key] = IF q = p \/ cache[q][key] = NoCfg THEN "no"
                                      ELSE IF @ = "no" THEN "kept" ELSE @]],
             !.shared[key] = IF del = "up" \/ redis[key] = NoEntry THEN "no"
                             ELSE IF @ = "no" THEN "kept" ELSE @,
             !.request = [c \in Callers |->
                            IF pending[c] # NoCall /\ pending[c].task = task
                            THEN "inflight" ELSE ex.request[c]],
             !.returned = "no"]

(***************************************************************************)
(* ADMIN: MODEL TRAINING                                                   *)
(***************************************************************************)

\* The POST /train requests of the model; each is made once.
TrainRequests == {"r1", "r2", "r3", "r4"}

\* training_status["is_training"], and for every request whether it has not
\* been made ("none"), was answered 409 ("rejected"), was answered "Training
\* started" with run_training queued as a background task ("accepted"), has
\* its run_training under way ("running"), or is over ("finished").
NoTraining == [is_training |-> FALSE, req |-> [r \in TrainRequests |-> "none"]]

\* train_model: 409 when is_training, otherwise background_tasks.add_task.
train_model(r) ==
    /\ ex.req[r] = "none"
    /\ ex' = [ex EXCEPT !.req[r] = IF ex.is_training THEN "rejected" ELSE "accepted"]

\* run_training begins, after the response was sent: is_training = True and
\* the rasa train subprocess is started.
run_training_begins(r) ==
    /\ ex.req[r] = "accepted"
    /\ ex' = [ex EXCEPT !.is_training = TRUE, !.req[r] = "running"]

\* run_training ends, whatever the subprocess did: finally is_training = False.
run_training_ends(r) ==
    /\ ex.req[r] = "running"
    /\ ex' = [ex EXCEPT !.is_training = FALSE, !.req[r] = "finished"]

(***************************************************************************)
(* ADMIN: THE TASK SWITCH AND WHAT THE RUNTIME READS                       *)
(***************************************************************************)

\* A row of task_config: its enabled column and the enabled field inside its
\* config column; NoRow when the table has no row for the task.
NoRow == [exists |-> FALSE, enabled |-> TRUE, config |-> [enabled |-> TRUE]]

\* No response read yet.
NoRead == [task_name |-> "", config |-> [enabled |-> TRUE]]

\* The table, the last thing an administrator did to each task ("none",
\* "put", "toggled on", "toggled off"), the response of the last read of the
\* admin endpoint, and the task_enabled slot the gate set from it.
NoSwitch ==
    [rows |-> [t \in Tasks |-> NoRow],
     did |-> [t \in Tasks |-> "none"],
     read |-> NoRead,
     task_enabled |-> "unset"]

\* PUT /config/tasks/{task_name}: the enabled column and the config column
\* are both written from the body.
update_task_config(task, enabled) ==
    ex' = [ex EXCEPT !.rows[task] = [exists |-> TRUE, enabled |-> enabled,
                                     config |-> [enabled |-> enabled]],
                     !.did[task] = "put",
                     !.read = NoRead, !.task_enabled = "unset"]

\* PATCH /config/tasks/{task_name}/toggle: UPDATE task_config SET enabled.
toggle_task(task, enabled) ==
    ex' = [ex EXCEPT !.rows[task] = IF @.exists THEN [@ EXCEPT !.enabled = enabled] ELSE @,
                     !.did[task] = IF enabled THEN "toggled on" ELSE "toggled off",
                     !.read = NoRead, !.task_enabled = "unset"]

\* GET /config/tasks/{task_name}: TaskConfigResponse with the row's config
\* column, or with the default configuration when there is no row.
admin_get_task_config(task) ==
    [task_name |-> task,
     config |-> IF ex.rows[task].exists THEN ex.rows[task].config ELSE [enabled |-> TRUE]]

\* The admin endpoint is read.
ReadTaskConfig(task) ==
    ex' = [ex EXCEPT !.read = admin_get_task_config(task), !.task_enabled = "unset"]

\* dict.get(key, default)
dict_get(d, key, default) == IF key \in DOMAIN d THEN d[key] ELSE default

\* ActionCheckTaskEnabled.run on the response body _fetch_from_api returned:
\* task_config.get("enabled", True); the body has no business_hours.
GateOnRead ==
    /\ ex.read # NoRead
    /\ ex' = [ex EXCEPT !.task_enabled =
                IF dict_get(ex.read, "enabled", TRUE) THEN "true" ELSE "false"]

(***************************************************************************)
(* SPECIFICATIONS                                                          *)
(***************************************************************************)

InitCC ==
    /\ now = 0
    /\ db = [t \in Tasks |-> 0]
    /\ redis = [k \in RedisKeys |-> NoEntry]
    /\ cache = [p \in Procs |-> [k \in RuntimeKeys |-> NoCfg]]
    /\ cache_timestamps = [p \in Procs |-> [k \in RuntimeKeys |-> NoTime]]
    /\ pending = [c \in Callers |-> NoCall]
    /\ last = NoLast
    /\ populated = [p \in Procs |-> [t \in Tasks |-> NoTime]]
    /\ ops = 0
    /\ bc = NoRequest
    /\ slots = NoSlots
    /\ ex = NoRun

\* The variables of the other components, which the cache leaves alone.
notCC == <<bc, slots, ex>>

NextCC ==
    \/ Tick /\ UNCHANGED notCC
    \/ \E c \in Callers, task \in TimedTasks, rd \in RedisModes, ok \in BOOLEAN :
           GetStart(c, task, rd, ok) /\ UNCHANGED notCC
    \/ \E c \in Callers, wr \in RedisModes : GetFinish(c, wr) /\ UNCHANGED notCC
    \/ \E p \in Procs, task \in TimedTasks, del \in RedisModes :
           InvalidateCache(p, task, del) /\ UNCHANGED notCC
    \/ \E p \in Procs, del \in RedisModes : InvalidateAll(p, del) /\ UNCHANGED notCC
    \/ \E task \in TimedTasks, del \in {"up", "error"} :
           UpdateTaskConfig(task, del) /\ UNCHANGED notCC
    \/ \E task \in TimedTasks, del \in {"up", "error"} :
           ToggleTask(task, del) /\ UNCHANGED notCC

SpecCC == InitCC /\ [][NextCC]_vars

notBC == <<now, db, redis, cache, cache_timestamps, pending, last, populated, ops, slots, ex>>

InitBC ==
    /\ bc = NoRequest
    /\ now = 0
    /\ db = [t \in Tasks |-> 0]
    /\ redis = [k \in RedisKeys |-> NoEntry]
    /\ cache = [p \in Procs |-> [k \in RuntimeKeys |-> NoCfg]]
    /\ cache_timestamps = [p \in Procs |-> [k \in RuntimeKeys |-> NoTime]]
    /\ pending = [c \in Callers |-> NoCall]
    /\ last = NoLast
    /\ populated = [p \in Procs |-> [t \in Tasks |-> NoTime]]
    /\ ops = 0
    /\ slots = NoSlots
    /\ ex = NoRun

NextBC ==
    \/ \E verb \in Verbs : StartCall(verb) /\ UNCHANGED notBC
    \/ \E o \in Outcomes : Attempt(o) /\ UNCHANGED notBC
    \/ Exhausted /\ UNCHANGED notBC

SpecBC == InitBC /\ [][NextBC]_vars

notDR == <<now, db, redis, cache, cache_timestamps, pending, last, populated, ops, bc, ex>>

InitDR ==
    /\ slots = NoSlots
    /\ now = 0
    /\ db = [t \in Tasks |-> 0]
    /\ redis = [k \in RedisKeys |-> NoEntry]
    /\ cache = [p \in Procs |-> [k \in RuntimeKeys |-> NoCfg]]
    /\ cache_timestamps = [p \in Procs |-> [k \in RuntimeKeys |-> NoTime]]
    /\ pending = [c \in Callers |-> NoCall]
    /\ last = NoLast
    /\ populated = [p \in Procs |-> [t \in Tasks |-> NoTime]]
    /\ ops = 0
    /\ bc = NoRequest
    /\ ex = NoRun

NextDR ==
    \/ \E slot \in minimum_slots : \E v \in Inputs(slot) :
          ValidateBookingForm(slot, v) /\ UNCHANGED notDR
    \/ \E v \in DateInputs : ActionExtractDate(v) /\ UNCHANGED notDR
    \/ \E v \in TimeInputs : ActionExtractTime(v) /\ UNCHANGED notDR
    \/ \E e \in BookingIds, r \in BookingRecords :
          ActionCheckBookingStatus(e, r) /\ UNCHANGED notDR
    \/ \E success \in BOOLEAN : ActionRescheduleBooking(success) /\ UNCHANGED notDR
    \/ ActionResetSlots /\ UNCHANGED notDR

SpecDR == InitDR /\ [][NextDR]_vars

notEX == <<now, db, redis, cache, cache_timestamps, pending, last, populated, ops, bc, slots>>

InitEX ==
    /\ ex = NoRun
    /\ now = 0
    /\ db = [t \in Tasks |-> 0]
    /\ redis = [k \in RedisKeys |-> NoEntry]
    /\ cache = [p \in Procs |-> [k \in RuntimeKeys |-> NoCfg]]
    /\ cache_timestamps = [p \in Procs |-> [k \in RuntimeKeys |-> NoTime]]
    /\ pending = [c \in Callers |-> NoCall]
    /\ last = NoLast
    /\ populated = [p \in Procs |-> [t \in Tasks |-> NoTime]]
    /\ ops = 0
    /\ bc = NoRequest
    /\ slots = NoSlots

NextEX ==
    \/ \E action \in ActionNames : \E path \in DOMAIN Returns(action) :
          Run(action, path) /\ UNCHANGED notEX
    \/ \E action \in ActionNames : \E said \in SaidBefore(action) :
          RunRaises(action, said) /\ UNCHANGED notEX
    \/ NewConversation /\ UNCHANGED notEX

SpecEX == InitEX /\ [][NextEX]_vars

notBK == <<now, db, redis, cache, cache_timestamps, pending, last, populated, ops, bc>>

InitBK ==
    /\ slots \in SlotStates
    /\ ex = NoRun
    /\ now = 0
    /\ db = [t \in Tasks |-> 0]
    /\ redis = [k \in RedisKeys |-> NoEntry]
    /\ cache = [p \in Procs |-> [k \in RuntimeKeys |-> NoCfg]]
    /\ cache_timestamps = [p \in Procs |-> [k \in RuntimeKeys |-> NoTime]]
    /\ pending = [c \in Callers |-> NoCall]
    /\ last = NoLast
    /\ populated = [p \in Procs |-> [t \in Tasks |-> NoTime]]
    /\ ops = 0
    /\ bc = NoRequest

NextBK ==
    \/ \E result \in Results : ActionCreateBooking(result) /\ UNCHANGED notBK
    \/ \E result \in Results : RescheduleBooking(result) /\ UNCHANGED notBK

SpecBK == InitBK /\ [][NextBK]_vars

notVL == <<now, db, redis, cache, cache_timestamps, pending, last, populated, ops, bc, slots>>

InitVL ==
    /\ ex = NoRun
    /\ now = 0
    /\ db = [t \in Tasks |-> 0]
    /\ redis = [k \in RedisKeys |-> NoEntry]
    /\ cache = [p \in Procs |-> [k \in RuntimeKeys |-> NoCfg]]
    /\ cache_timestamps = [p \in Procs |-> [k \in RuntimeKeys |-> NoTime]]
    /\ pending = [c \in Callers |-> NoCall]
    /\ last = NoLast
    /\ populated = [p \in Procs |-> [t \in Tasks |-> NoTime]]
    /\ ops = 0
    /\ bc = NoRequest
    /\ slots = NoSlots

NextVL ==
    \/ \E d \in IsoDates \cup {"Unknown"}, t \in IsoTimes \cup {"Unknown"},
          bh \in HoursConfigs, bd \in BlockedDatesConfigs :
          ApplyValidateDatetime(d, t, bh, bd) /\ UNCHANGED notVL
    \/ \E v \in TimeInputs, bh \in HoursConfigs :
          ApplyValidateBookingTime(v, bh) /\ UNCHANGED notVL
    \/ \E fields \in FieldLists : ApplyRequiredSlots(fields) /\ UNCHANGED notVL
    \/ \E text \in RelativePhrases, wd \in 0..6 :
          ApplyParseDate(text, wd) /\ UNCHANGED notVL

SpecVL == InitVL /\ [][NextVL]_vars

notGT == <<now, db, redis, cache, cache_timestamps, pending, last, populated, ops, bc, slots>>

InitGT ==
    /\ now \in ClockTimes
    /\ ex = NoRun
    /\ db = [t \in Tasks |-> 0]
    /\ redis = [k \in RedisKeys |-> NoEntry]
    /\ cache = [p \in Procs |-> [k \in RuntimeKeys |-> NoCfg]]
    /\ cache_timestamps = [p \in Procs |-> [k \in RuntimeKeys |-> NoTime]]
    /\ pending = [c \in Callers |-> NoCall]
    /\ last = NoLast
    /\ populated = [p \in Procs |-> [t \in Tasks |-> NoTime]]
    /\ ops = 0
    /\ bc = NoRequest
    /\ slots = NoSlots

NextGT ==
    \/ \E task \in Tasks, config \in GateConfigs :
          ActionCheckTaskEnabled(task, config) /\ UNCHANGED notGT

SpecGT == InitGT /\ [][NextGT]_vars

notRG == <<now, db, redis, cache, cache_timestamps, pending, last, populated, ops, bc, slots>>

InitRG ==
    /\ ex = NoRun
    /\ now = 0
    /\ db = [t \in Tasks |-> 0]
    /\ redis = [k \in RedisKeys |-> NoEntry]
    /\ cache = [p \in Procs |-> [k \in RuntimeKeys |-> NoCfg]]
    /\ cache_timestamps = [p \in Procs |-> [k \in RuntimeKeys |-> NoTime]]
    /\ pending = [c \in Callers |-> NoCall]
    /\ last = NoLast
    /\ populated = [p \in Procs |-> [t \in Tasks |-> NoTime]]
    /\ ops = 0
    /\ bc = NoRequest
    /\ slots = NoSlots

\* One application per behaviour: check and the answer action keep no state
\* between calls.
NextRG ==
    \/ /\ ex = NoRun
       /\ \E thresholds \in ThresholdConfigs, question \in Questions,
             retrieved_content \in {<<>>} \cup {<<c>> : c \in TopChunks(Confidences)},
             confidence \in Confidences :
             ApplyCheck(thresholds, question, retrieved_content, confidence)
       /\ UNCHANGED notRG
    \/ /\ ex = NoRun
       /\ \E thresholds \in ThresholdConfigs \cup {Malformed}, question \in Questions,
             results \in SearchResults :
             ActionAnswerQuestion(thresholds, question, results)
       /\ UNCHANGED notRG
    \/ /\ ex = NoRun
       /\ \E thresholds \in ThresholdConfigs, question \in Questions,
             retrieved \in Retrievals :
             AnswerRetrieved(thresholds, question, retrieved)
       /\ UNCHANGED notRG

SpecRG == InitRG /\ [][NextRG]_vars

notLM == <<now, db, redis, cache, cache_timestamps, pending, last, populated, ops, bc, slots>>

InitLM ==
    /\ ex = NoRun
    /\ now = 0
    /\ db = [t \in Tasks |-> 0]
    /\ redis = [k \in RedisKeys |-> NoEntry]
    /\ cache = [p \in Procs |-> [k \in RuntimeKeys |-> NoCfg]]
    /\ cache_timestamps = [p \in Procs |-> [k \in RuntimeKeys |-> NoTime]]
    /\ pending = [c \in Callers |-> NoCall]
    /\ last = NoLast
    /\ populated = [p \in Procs |-> [t \in Tasks |-> NoTime]]
    /\ ops = 0
    /\ bc = NoRequest
    /\ slots = NoSlots

\* One application per behaviour: the fallback and generate keep no state
\* between calls.
NextLM ==
    \/ /\ ex = NoRun
       /\ \E answer \in {get_config(stored) : stored \in StoredLLMConfigs} \cup {NoLLMConfig},
             confidence \in {30, 65, 80}, results \in FallbackResults,
             outcome \in ProviderOutcomes,
             result \in UNION {runtime_generate(p, o) : p \in Providers, o \in ProviderOutcomes} :
             ActionLLMFallback(answer, confidence, results, outcome, result)
       /\ UNCHANGED notLM
    \/ /\ ex = NoRun
       /\ \E client \in Clients, provider \in Providers, outcome \in ProviderOutcomes,
             result \in UNION {generate(c, p, o) :
                                  c \in Clients, p \in Providers, o \in ProviderOutcomes} :
             ApplyGenerate(client, provider, outcome, result)
       /\ UNCHANGED notLM
    \/ /\ ex = NoRun
       /\ \E system_prompt \in {"You are a helpful assistant.", "Be brief."},
             context \in {"", "[FAQ]: hours text", "[Pricing]: prices text"},
             user_message \in {"hi", "what are your opening hours"} :
             ApplyAnthropic(system_prompt, context, user_message)
       /\ UNCHANGED notLM
    \/ /\ ex = NoRun
       /\ \E verb \in {"GET", "PUT"}, stored_key \in ApiKeys, new_key \in ApiKeys :
             ApplyConfigRequest(verb, stored_key, new_key)
       /\ UNCHANGED notLM
    \/ /\ ex = NoRun
       /\ \E answer \in {get_config(stored) : stored \in StoredLLMConfigs} \cup {NoLLMConfig},
             user_message \in Questions, outcome \in ProviderOutcomes,
             result \in UNION {runtime_generate(p, o) : p \in Providers, o \in ProviderOutcomes} :
             ActionLLMResponse(answer, user_message, outcome, result)
       /\ UNCHANGED notLM

SpecLM == InitLM /\ [][NextLM]_vars

notAU == <<now, db, redis, cache, cache_timestamps, pending, last, populated, ops, bc, slots>>

InitAU ==
    /\ ex = NoAudit
    /\ now = 0
    /\ db = [t \in Tasks |-> 0]
    /\ redis = [k \in RedisKeys |-> NoEntry]
    /\ cache = [p \in Procs |-> [k \in RuntimeKeys |-> NoCfg]]
    /\ cache_timestamps = [p \in Procs |-> [k \in RuntimeKeys |-> NoTime]]
    /\ pending = [c \in Callers |-> NoCall]
    /\ last = NoLast
    /\ populated = [p \in Procs |-> [t \in Tasks |-> NoTime]]
    /\ ops = 0
    /\ bc = NoRequest
    /\ slots = NoSlots

NextAU ==
    \/ \E action \in {"handoff_to_human"}, status \in {"initiated"},
          metadata \in Metadatas, db_outcome \in DbOutcomes, file_outcome \in FileOutcomes :
          log_action(action, status, metadata, db_outcome, file_outcome) /\ UNCHANGED notAU

SpecAU == InitAU /\ [][NextAU]_vars

notSN == <<now, db, redis, cache, cache_timestamps, pending, last, populated, ops, bc, slots>>

InitSN ==
    /\ ex = NoHeap
    /\ now = 0
    /\ db = [t \in Tasks |-> 0]
    /\ redis = [k \in RedisKeys |-> NoEntry]
    /\ cache = [p \in Procs |-> [k \in RuntimeKeys |-> NoCfg]]
    /\ cache_timestamps = [p \in Procs |-> [k \in RuntimeKeys |-> NoTime]]
    /\ pending = [c \in Callers |-> NoCall]
    /\ last = NoLast
    /\ populated = [p \in Procs |-> [t \in Tasks |-> NoTime]]
    /\ ops = 0
    /\ bc = NoRequest
    /\ slots = NoSlots

NextSN ==
    \/ \E c \in Callers, task \in Tasks, expired \in BOOLEAN,
          layer \in {"redis", "api", "default"}, content \in ConfigContents :
          GetTaskConfigObject(c, task, expired, layer, content) /\ UNCHANGED notSN
    \/ \E c \in Callers, enabled \in BOOLEAN :
          ConsumerModifies(c, enabled) /\ UNCHANGED notSN

SpecSN == InitSN /\ [][NextSN]_vars

notIV == <<bc, slots>>

InitIV ==
    /\ ex = NoMark
    /\ now = 0
    /\ db = [t \in Tasks |-> 0]
    /\ redis = [k \in RedisKeys |-> NoEntry]
    /\ cache = [p \in Procs |-> [k \in RuntimeKeys |-> NoCfg]]
    /\ cache_timestamps = [p \in Procs |-> [k \in RuntimeKeys |-> NoTime]]
    /\ pending = [c \in Callers |-> NoCall]
    /\ last = NoLast
    /\ populated = [p \in Procs |-> [t \in Tasks |-> NoTime]]
    /\ ops = 0
    /\ bc = NoRequest
    /\ slots = NoSlots

NextIV ==
    \/ Tick /\ ex' = NoMark /\ UNCHANGED notIV
    \/ \E c \in Callers, task \in Tasks, rd \in {"up", "error"}, ok \in BOOLEAN :
           GetStart(c, task, rd, ok) /\ ex' = NoMark /\ UNCHANGED notIV
    \/ \E c \in Callers, wr \in {"up", "error"} :
           GetFinish(c, wr) /\ ex' = NoMark /\ UNCHANGED notIV
    \/ \E p \in Procs, task \in Tasks, del \in RedisModes :
           /\ InvalidateCache(p, task, del)
           /\ Marked("invalidate", p, task, del, cache[p][RuntimeKey(task)] # NoCfg)
           /\ UNCHANGED notIV
    \/ \E p \in Procs, del \in RedisModes :
           /\ InvalidateAll(p, del)
           /\ Marked("invalidate_all", p, "", del,
                     \E k \in RuntimeKeys : cache[p][k] # NoCfg)
           /\ UNCHANGED notIV

SpecIV == InitIV /\ [][NextIV]_vars

notEV == <<now, db, redis, cache, cache_timestamps, pending, last, populated, ops, bc>>

InitEV ==
    /\ slots \in EventSlotStates
    /\ ex = NoEvents
    /\ now = 0
    /\ db = [t \in Tasks |-> 0]
    /\ redis = [k \in RedisKeys |-> NoEntry]
    /\ cache = [p \in Procs |-> [k \in RuntimeKeys |-> NoCfg]]
    /\ cache_timestamps = [p \in Procs |-> [k \in RuntimeKeys |-> NoTime]]
    /\ pending = [c \in Callers |-> NoCall]
    /\ last = NoLast
    /\ populated = [p \in Procs |-> [t \in Tasks |-> NoTime]]
    /\ ops = 0
    /\ bc = NoRequest

NextEV ==
    \/ \E result \in Results :
          /\ TrackerApplies("action_create_booking", CreateBookingEvents(slots, result))
          /\ UNCHANGED notEV
    \/ \E e \in BookingIds, r \in BookingRecords :
          /\ TrackerApplies("action_check_booking_status", CheckBookingStatusEvents(slots, e, r))
          /\ UNCHANGED notEV
    \/ TrackerApplies("action_reset_slots", ResetSlotsEvents) /\ UNCHANGED notEV
    \/ \E v \in DateInputs :
          /\ TrackerApplies("action_extract_date", ExtractDateEvents(v))
          /\ UNCHANGED notEV

SpecEV == InitEV /\ [][NextEV]_vars

notPL == <<now, db, redis, cache, cache_timestamps, pending, last, populated, ops, bc, slots>>

InitPL ==
    /\ ex = NoPoolState
    /\ now = 0
    /\ db = [t \in Tasks |-> 0]
    /\ redis = [k \in RedisKeys |-> NoEntry]
    /\ cache = [p \in Procs |-> [k \in RuntimeKeys |-> NoCfg]]
    /\ cache_timestamps = [p \in Procs |-> [k \in RuntimeKeys |-> NoTime]]
    /\ pending = [c \in Callers |-> NoCall]
    /\ last = NoLast
    /\ populated = [p \in Procs |-> [t \in Tasks |-> NoTime]]
    /\ ops = 0
    /\ bc = NoRequest
    /\ slots = NoSlots

NextPL ==
    \/ \E c \in LogCallers : GetDbPoolStart(c) /\ UNCHANGED notPL
    \/ \E c \in LogCallers, ok \in BOOLEAN : CreatePoolReturns(c, ok) /\ UNCHANGED notPL
    \/ \E c \in LogCallers, ok \in BOOLEAN : CreateTableReturns(c, ok) /\ UNCHANGED notPL

SpecPL == InitPL /\ [][NextPL]_vars

notSW == <<bc, slots, ex>>

InitSW ==
    /\ pending = [c \in Turns |-> NoCall]
    /\ now = 0
    /\ db = [t \in Tasks |-> 0]
    /\ redis = [k \in RedisKeys |-> NoEntry]
    /\ cache = [p \in Procs |-> [k \in RuntimeKeys |-> NoCfg]]
    /\ cache_timestamps = [p \in Procs |-> [k \in RuntimeKeys |-> NoTime]]
    /\ last = NoLast
    /\ populated = [p \in Procs |-> [t \in Tasks |-> NoTime]]
    /\ ops = 0
    /\ bc = NoRequest
    /\ slots = NoSlots
    /\ ex = NoRun

NextSW ==
    \/ Tick /\ UNCHANGED notSW
    \/ \E c \in Turns, task \in Tasks, rd \in RedisModes, ok \in BOOLEAN :
           GetStart(c, task, rd, ok) /\ UNCHANGED notSW
    \/ \E c \in Turns, wr \in RedisModes : GetFinish(c, wr) /\ UNCHANGED notSW

SpecSW == InitSW /\ [][NextSW]_vars

notCB == <<now, db, redis, cache, cache_timestamps, pending, last, populated, ops>>

InitCB ==
    /\ slots \in EventSlotStates
    /\ bc = NoRequest
    /\ ex = NoBooking
    /\ now = 0
    /\ db = [t \in Tasks |-> 0]
    /\ redis = [k \in RedisKeys |-> NoEntry]
    /\ cache = [p \in Procs |-> [k \in RuntimeKeys |-> NoCfg]]
    /\ cache_timestamps = [p \in Procs |-> [k \in RuntimeKeys |-> NoTime]]
    /\ pending = [c \in Callers |-> NoCall]
    /\ last = NoLast
    /\ populated = [p \in Procs |-> [t \in Tasks |-> NoTime]]
    /\ ops = 0

NextCB ==
    \/ CreateBookingStarts /\ UNCHANGED notCB
    \/ \E o \in Outcomes, created \in BOOLEAN :
          CreateBookingAttempt(o, created) /\ UNCHANGED notCB
    \/ /\ ex.pc = "calling"
       /\ Exhausted
       /\ UNCHANGED <<ex, slots>>
       /\ UNCHANGED notCB
    \/ CreateBookingReturns /\ UNCHANGED notCB

SpecCB == InitCB /\ [][NextCB]_vars

notIF == <<bc, slots>>

InitIF ==
    /\ ex = NoTaint
    /\ now = 0
    /\ db = [t \in Tasks |-> 0]
    /\ redis = [k \in RedisKeys |-> NoEntry]
    /\ cache = [p \in Procs |-> [k \in RuntimeKeys |-> NoCfg]]
    /\ cache_timestamps = [p \in Procs |-> [k \in RuntimeKeys |-> NoTime]]
    /\ pending = [c \in Callers |-> NoCall]
    /\ last = NoLast
    /\ populated = [p \in Procs |-> [t \in Tasks |-> NoTime]]
    /\ ops = 0
    /\ bc = NoRequest
    /\ slots = NoSlots

NextIF ==
    \/ Tick /\ ex' = [ex EXCEPT !.returned = "no"] /\ UNCHANGED notIF
    \/ \E c \in Callers, task \in TimedTasks, rd \in RedisModes, ok \in BOOLEAN :
           GetStart(c, task, rd, ok) /\ TaintGetStart(c, task, rd) /\ UNCHANGED notIF
    \/ \E c \in Callers, wr \in RedisModes :
           GetFinish(c, wr) /\ TaintGetFinish(c, wr) /\ UNCHANGED notIF
    \/ \E p \in Procs, task \in TimedTasks, del \in RedisModes :
           InvalidateCache(p, task, del) /\ TaintInvalidate(p, task, del) /\ UNCHANGED notIF

SpecIF == InitIF /\ [][NextIF]_vars

notTR == <<now, db, redis, cache, cache_timestamps, pending, last, populated, ops, bc, slots>>

InitTR ==
    /\ ex = NoTraining
    /\ now = 0
    /\ db = [t \in Tasks |-> 0]
    /\ redis = [k \in RedisKeys |-> NoEntry]
    /\ cache = [p \in Procs |-> [k \in RuntimeKeys |-> NoCfg]]
    /\ cache_timestamps = [p \in Procs |-> [k \in RuntimeKeys |-> NoTime]]
    /\ pending = [c \in Callers |-> NoCall]
    /\ last = NoLast
    /\ populated = [p \in Procs |-> [t \in Tasks |-> NoTime]]
    /\ ops = 0
    /\ bc = NoRequest
    /\ slots = NoSlots

NextTR ==
    \/ \E r \in TrainRequests : train_model(r) /\ UNCHANGED notTR
    \/ \E r \in TrainRequests : run_training_begins(r) /\ UNCHANGED notTR
    \/ \E r \in TrainRequests : run_training_ends(r) /\ UNCHANGED notTR

SpecTR == InitTR /\ [][NextTR]_vars

notTG == <<now, db, redis, cache, cache_timestamps, pending, last, populated, ops, bc, slots>>

InitTG ==
    /\ ex = NoSwitch
    /\ now = 0
    /\ db = [t \in Tasks |-> 0]
    /\ redis = [k \in RedisKeys |-> NoEntry]
    /\ cache = [p \in Procs |-> [k \in RuntimeKeys |-> NoCfg]]
    /\ cache_timestamps = [p \in Procs |-> [k \in RuntimeKeys |-> NoTime]]
    /\ pending = [c \in Callers |-> NoCall]
    /\ last = NoLast
    /\ populated = [p \in Procs |-> [t \in Tasks |-> NoTime]]
    /\ ops = 0
    /\ bc = NoRequest
    /\ slots = NoSlots

NextTG ==
    \/ \E task \in Tasks, enabled \in BOOLEAN :
          update_task_config(task, enabled) /\ UNCHANGED notTG
    \/ \E task \in Tasks, enabled \in BOOLEAN :
          toggle_task(task, enabled) /\ UNCHANGED notTG
    \/ \E task \in Tasks : ReadTaskConfig(task) /\ UNCHANGED notTG
    \/ GateOnRead /\ UNCHANGED notTG

SpecTG == InitTG /\ [][NextTG]_vars

(***************************************************************************)
(* Properties of the configuration cache.                                 *)
(***************************************************************************)

\* The entry of process p for key is present and less than one TTL old.
LocalFresh(p, key) ==
    /\ cache[p][key] # NoCfg
    /\ cache_timestamps[p][key] # NoTime
    /\ now - cache_timestamps[p][key] < TTL

\* C1: a get_task_config call that begins less than TTL after a fetch of the
\* same process populated the caches for that task, with no invalidation in
\* between, requests nothing from the admin API and reads nothing from the
\* shared cache (so any number of such calls make zero admin requests and at
\* most one shared-cache read).
C1_NoRequestsWithinTtl ==
    (last.src # "none" /\ last.since # NoTime /\ now - last.since < TTL)
        => (~last.apiReq /\ ~last.redisRead)

\* A call served from the local map one step of the clock after the
\* populated fetch.
C1_Witness ==
    /\ last.src = "local"
    /\ last.since # NoTime
    /\ now > last.since
    /\ now - last.since < TTL

\* C2: an administrative write to a task's configuration deletes the
\* runtime's local and shared cache entries for that task.
C2_WriteDeletesRuntimeEntries ==
    [][\A task \in Tasks :
         db'[task] # db[task] =>
             /\ redis'[RuntimeKey(task)] = NoEntry
             /\ \A p \in Procs : cache'[p][RuntimeKey(task)] = NoCfg]_vars

\* C3: a value returned from the local map or the shared cache was fetched
\* from the admin API less than one TTL before the read.
C3_StalenessWithinTtl ==
    last.src \in {"local", "redis"} => now - last.val.at < TTL

\* C4: the shared cache is read only when the local entry is absent or
\* expired; the admin API is requested only when the shared cache also misses
\* or fails; the local map answers only with a fresh entry; a shared-cache hit
\* refreshes the local entry; a 200 from the admin API populates the local map
\* and, through a working Redis handle, the shared cache with the TTL.
C4_LayerOrder ==
    [][\A c \in Callers, task \in Tasks :
         LET p == ProcOf(c)
             key == RuntimeKey(task)
             l == last'
         IN
         (l.caller = c /\ l.task = task) =>
             /\ l.redisRead => ~LocalFresh(p, key)
             /\ l.apiReq =>
                    /\ ~LocalFresh(p, key)
                    /\ l.rd # "up" \/ RedisGet(key) = NoCfg
             /\ l.src = "local" =>
                    /\ LocalFresh(p, key)
                    /\ l.val = cache[p][key]
                    /\ ~l.redisRead /\ ~l.apiReq
             /\ l.src = "redis" =>
                    /\ l.val = RedisGet(key) /\ l.val # NoCfg
                    /\ cache'[p][key] = l.val
                    /\ cache_timestamps'[p][key] = now
                    /\ ~l.apiReq
             /\ l.src = "api" =>
                    /\ cache'[p][key] = l.val
                    /\ cache_timestamps'[p][key] = now
                    /\ l.rd = "up" => redis'[key] = [val |-> l.val, exp |-> now + TTL]
             /\ l.src = "default" =>
                    /\ l.val = DefaultConfig(task)
                    /\ UNCHANGED <<cache, cache_timestamps, redis>>]_vars

\* An answer of the admin API that has populated both caches.
C4_Witness ==
    /\ last.src = "api"
    /\ cache[ProcOf(last.caller)][RuntimeKey(last.task)] = last.val
    /\ redis[RuntimeKey(last.task)].val = last.val

(***************************************************************************)
(* Properties of the backend client.                                      *)
(***************************************************************************)

Failed(o) == o.kind \in {"timeout", "client_error"}

\* The i-th request of the call was not the last one.
Retried(i) == i < Len(bc.hist) \/ bc.pc = "running"

\* C5: one client call issues at most 3 HTTP requests; after a timeout or a
\* connection error on attempt i < 2 (the i+1-th request) it sleeps 1 * 2^i
\* seconds and retries; after a third such failure it returns success = false
\* without a further sleep.
C5_ThreeAttemptsWithBackoff ==
    /\ Len(bc.hist) <= 3
    /\ \A i \in 1..Len(bc.hist) :
          Failed(bc.hist[i]) =>
              IF i - 1 < 2
              THEN bc.slept[i] = 1 * 2 ^ (i - 1) /\ Retried(i)
              ELSE bc.slept[i] = 0 /\ bc.pc = "done" /\ ~bc.result.success

\* A call that failed three times: slept 1 s, then 2 s, then returned.
C5_Witness ==
    /\ bc.pc = "done"
    /\ Len(bc.hist) = 3
    /\ \A i \in 1..3 : Failed(bc.hist[i])
    /\ bc.slept = <<1, 2, 0>>
    /\ ~bc.result.success

Is429(o) == o.kind = "response" /\ o.status = 429 /\ o.body = "object" /\ o.retry_after # "soon"

\* C6: a 429 response makes the client sleep for Retry-After and retry without
\* using up an attempt: a call whose last response so far is a 429 is still
\* running, however many 429s it has received.
C6_RateLimitKeepsAttempts ==
    (bc.hist # <<>> /\ Is429(bc.hist[Len(bc.hist)])) =>
        /\ bc.slept[Len(bc.hist)] = RetryAfterSeconds(bc.hist[Len(bc.hist)].retry_after)
        /\ bc.pc = "running"
        /\ bc.attempt = Cardinality({i \in 1..Len(bc.hist) : ~Is429(bc.hist[i])})

IsPrefix(s, t) == Len(s) <= Len(t) /\ \A i \in 1..Len(s) : s[i] = t[i]

Sum3(s) == (IF Len(s) >= 1 THEN s[1] ELSE 0) + (IF Len(s) >= 2 THEN s[2] ELSE 0)
             + (IF Len(s) >= 3 THEN s[3] ELSE 0)

\* The backend that answers 503 to the first two requests and 200 to the third.
Stub503 == << Response(503, "object_error", ""), Response(503, "object_error", ""),
              Response(200, "object", "") >>

\* C7: against a backend that answers 503, 503, 200, create_booking returns
\* success = true after exactly three requests, having slept at least 3 s.
C7_Retries503 ==
    (bc.pc = "done" /\ bc.verb = "create_booking" /\ IsPrefix(bc.hist, Stub503)) =>
        /\ bc.result.success
        /\ Len(bc.hist) = 3
        /\ Sum3(bc.slept) >= 3

\* C8: a 404 response ends the call with "Resource not found" and a 401
\* response with "Authentication failed", with no retry and no sleep,
\* whichever attempt the response arrives on.
C8_NotFoundAndAuthEndTheCall ==
    \A i \in 1..Len(bc.hist) :
        LET o == bc.hist[i] IN
        (o.kind = "response" /\ o.status \in {404, 401}) =>
            /\ i = Len(bc.hist)
            /\ bc.pc = "done"
            /\ bc.slept[i] = 0
            /\ bc.result = Envelope(FALSE, IF o.status = 404 THEN "Resource not found"
                                           ELSE "Authentication failed")

(***************************************************************************)
(* Properties of the slots.                                               *)
(***************************************************************************)

\* C9: in every reachable state of a conversation each required booking slot
\* is unset or holds a value its validator accepts, whichever action wrote it
\* last.
C9_RequiredSlotsValid ==
    \A slot \in minimum_slots :
        slots[slot] = None \/ Validate(slot, slots[slot]) # None

(***************************************************************************)
(* Properties of action runs.                                             *)
(***************************************************************************)

\* C10: for every action, when its body raises an exception the run leaves
\* exactly one audit record with status "exception" and exactly one message,
\* returns the empty list of events and lets no exception out.
C10_ExceptionPolicy ==
    ex.path = "exception" =>
        /\ ex.out.audit = <<"exception">>
        /\ ex.out.messages = 1
        /\ ex.out.events = "empty"
        /\ ~ex.out.raised

(***************************************************************************)
(* Properties of the terminal actions of the booking task.                 *)
(***************************************************************************)

\* The five booking slots are all set (a run of create-booking leaves them
\* as it found them).
BookingSlotsSet == \A n \in minimum_slots : slots[n] # None

\* C11: action_create_booking calls the backend only when the five booking
\* slots are all set, and otherwise returns FollowupAction(booking_form)
\* without a backend call or an audit record; on a success envelope it returns
\* exactly [SlotSet(current_booking), SlotSet(booking_id)] and audits
\* "success"; on a failure envelope it returns no events, emits the booking
\* error response once and audits "failed".
C11_CreateBooking ==
    (ex # NoRun /\ ex.action = "action_create_booking") =>
        /\ ex.backend # <<>> => BookingSlotsSet
        /\ ~BookingSlotsSet =>
              /\ ex.events = <<FollowupAction("booking_form")>>
              /\ ex.backend = <<>>
              /\ ex.audit = <<>>
        /\ (BookingSlotsSet /\ ex.result.kind = "success") =>
              /\ ex.backend = <<"create_booking">>
              /\ ex.events = <<SlotSet("current_booking"), SlotSet("booking_id")>>
              /\ ex.audit = <<"success">>
        /\ (BookingSlotsSet /\ ex.result.kind = "failure") =>
              /\ ex.events = <<>>
              /\ ex.messages = <<"utter_booking_error">>
              /\ ex.audit = <<"failed">>

\* A booking was created.
C11_Witness ==
    /\ ex # NoRun
    /\ ex.action = "action_create_booking"
    /\ BookingSlotsSet
    /\ ex.result.kind = "success"
    /\ ex.audit = <<"success">>
    /\ slots.booking_id = "BK-1234-5678"

C14_ValidateDatetimeIff ==
    (ex # NoRun /\ ex.fn = "validate_datetime"
        /\ ex.args.date \in IsoDates /\ ex.args.time \in IsoTimes) =>
        (ex.out.valid <=>
            /\ DayOf(ex.args.date) >= DayOf(Today)
            /\ ex.args.date \notin ex.args.blocked_dates
            /\ DayOf(ex.args.date) <= DayOf(Today) + BookConfig.booking_window_days
            /\ MinuteOfDay(ex.args.business_hours.start) <= MinuteOfDay(ex.args.time)
            /\ MinuteOfDay(ex.args.time) < MinuteOfDay(ex.args.business_hours.end))

\* C15: validate_booking_time sets booking_time, to the 24-hour HH:MM form of
\* the parsed time t, if and only if business_hours.start <= t <
\* business_hours.end with the minutes taken into account, for every start and
\* end; otherwise the slot stays unset.
C15_BookingTimeWithinHours ==
    (ex # NoRun /\ ex.fn = "validate_booking_time") =>
        LET t == IF ex.args.slot_value = None THEN None ELSE parse_time(ex.args.slot_value)
            within == /\ t # None
                      /\ MinuteOfDay(ex.args.business_hours.start) <= MinuteOfDay(t)
                      /\ MinuteOfDay(t) < MinuteOfDay(ex.args.business_hours.end)
        IN
        /\ within => ex.out.booking_time = t
        /\ ~within => ex.out.booking_time = None

(***************************************************************************)
(* Properties of the task-enablement gate.                                 *)
(***************************************************************************)

\* C13: action_check_task_enabled sets task_enabled = false and emits an
\* unavailability message whenever the configuration has enabled = false or
\* the local time is outside [business_hours.start, business_hours.end)
\* compared as HH:MM; in every other case, a missing configuration and a read
\* error included, it sets task_enabled = true and emits no message.
C13_GateFollowsConfig ==
    (ex # NoRun /\ ex.action = "action_check_task_enabled") =>
        LET config == ex.result.config
            disabled == config.kind = "config" /\ ~config.enabled
            outside ==
                /\ config.kind = "config"
                /\ config.business_hours # NoHours
                /\ ~ /\ MinuteOfDay(config.business_hours.start) * 60 <= now
                     /\ now < MinuteOfDay(config.business_hours.end) * 60
        IN
        IF disabled \/ outside
        THEN /\ ex.events = <<SlotSetTo("task_enabled", FALSE)>>
             /\ ex.messages = <<"not_available_right_now">>
        ELSE /\ ex.events = <<SlotSetTo("task_enabled", TRUE)>>
             /\ ex.messages = <<>>

\* C16: for every task configuration, required_slots of the booking form
\* returns a list whose elements are exactly the five minimum slots united
\* with the slots mapped from required_fields, each slot name once; fields
\* without a mapping are ignored, and party_size is in the list only when the
\* configuration lists it.
C16_RequiredSlotsUnion ==
    (ex # NoRun /\ ex.fn = "required_slots") =>
        LET fields == Range(ex.args.required_fields)
            out == ex.out.slots
        IN
        /\ Range(out) = minimum_slots
                          \cup {field_to_slot(f) : f \in {g \in fields : field_to_slot(g) # None}}
        /\ \A i, j \in 1..Len(out) : i # j => out[i] # out[j]
        /\ "party_size" \in Range(out) <=> "party_size" \in fields


(***************************************************************************)
(* Properties of retrieval and guardrails.                                 *)
(***************************************************************************)

\* C17: for every configuration of the thresholds, the defaults or values
\* set through the environment, check never returns should_answer = TRUE when
\* the confidence is below low_confidence_threshold.
C17_NoAnswerBelowLow ==
    (ex # NoRun /\ ex.fn = "check") =>
        (ex.args.confidence < ex.args.thresholds.low => ~ex.out.should_answer)

\* C18: when the question contains a prompt-injection phrase, the answer
\* action does not answer from the retrieved content (should_answer is FALSE
\* and qa_answer is not set to an answer), and the user is shown the refusal
\* "I can only answer questions about our business and services."
C18_InjectionRefused ==
    (/\ ex # NoRun
     /\ ex.fn = "action_answer_question"
     /\ \E pattern \in injection_patterns : Occurs(pattern, ex.args.question)) =>
        /\ ~ex.out.guardrail.should_answer
        /\ \A i \in 1..Len(ex.out.events) :
              ex.out.events[i][2] = "qa_answer" => ex.out.events[i][3] = None
        /\ ex.out.messages =
              <<Utter(None, "I can only answer questions about our business and services.",
                      None)>>


(***************************************************************************)
(* Properties of the LLM dispatch.                                         *)
(***************************************************************************)

\* C19: when the LLM configuration the admin API returns has enabled and
\* fallback_to_llm set and the NLU confidence is below confidence_threshold,
\* action_llm_fallback calls the LLM, with an empty context when the
\* retrieval returns no chunk, and the user sees the LLM's response, with the
\* general-knowledge note when the context is empty; in every other case the
\* user gets the default response and the LLM is not called.
C19_FallbackCallsLLM ==
    (ex # NoRun /\ ex.fn = "action_llm_fallback") =>
        LET llm_config == ex.args.answer.config
            out == ex.out
        IN
        IF /\ ex.args.answer.status = 200
           /\ llm_config.enabled
           /\ llm_config.fallback_to_llm
           /\ ex.args.confidence < llm_config.confidence_threshold
        THEN /\ out.llm_called
             /\ ex.args.results = <<>> => out.context = ""
             /\ Len(out.messages) = 1
             /\ out.messages[1].response = None
             /\ out.context = "" =>
                   \E r \in {"llm answer", ""} : out.messages[1].text = r \o GeneralKnowledgeNote
        ELSE /\ ~out.llm_called
             /\ out.messages = <<Utter("utter_default", None, None)>>

\* C20: for every provider and every way the provider can fail (an API
\* error, a timeout, an unreachable host, a missing client library),
\* generate returns a result with success = FALSE and an error, and never
\* raises.
C20_GenerateNeverRaises ==
    (ex # NoRun /\ ex.fn = "generate" /\ ex.args.outcome # "ok") =>
        /\ ex.out.kind = "return"
        /\ ~ex.out.success
        /\ ex.out.error # None

\* C21: for the Anthropic adapter, when the context is not empty the system
\* parameter passed to the provider is the configured system prompt and the
\* context system message joined by a newline, and the messages list holds
\* only the user turn: no system message generate produced is dropped.
C21_AnthropicKeepsContext ==
    (ex # NoRun /\ ex.fn = "call_anthropic" /\ ex.args.context # "") =>
        /\ ex.out.system =
              ex.args.system_prompt \o "\n"
                 \o "Use this context to answer the user's question:\n\n" \o ex.args.context
        /\ ex.out.messages = <<[role |-> "user", content |-> ex.args.user_message]>>

\* C22: for every stored API key, of any length, the responses of GET and PUT
\* /api/llm/config carry api_key_set = TRUE and api_key_masked equal to the
\* first 4 characters, len - 8 asterisks and the last 4 characters, and the
\* full key cannot be read out of any field of the response.
C22_KeyNeverReadable ==
    (ex # NoRun /\ ex.fn = "llm_config" /\ ex.args.api_key # NoKey) =>
        LET key == ex.args.api_key
            n == Len(key)
        IN
        /\ ex.out.api_key_set
        /\ Len(ex.out.api_key_masked) = n
        /\ \A i \in 1..n :
              ex.out.api_key_masked[i] = IF i <= 4 \/ i > n - 4 THEN key[i] ELSE "*"
        /\ ex.out.api_key_masked # key


(***************************************************************************)
(* Properties of the audit log.                                            *)
(***************************************************************************)

\* A value that holds a raw email address or phone number.
HoldsRawContact(value) ==
    value \in {"jane@ex.com", "555-123-4567", "call me on 555-123-4567"}

\* C23: for every metadata map passed to log_action, under any key name, the
\* records written to the database sink and to the file sink hold no raw
\* email or phone value that was in the metadata.
C23_NoRawContactInRecords ==
    \A sink \in {ex.database, ex.file} :
        \A i \in 1..Len(sink) :
            \A key \in DOMAIN sink[i].metadata : ~HoldsRawContact(sink[i].metadata[key])

\* C24: for every metadata map, every key whose name contains password,
\* token, secret or key is absent from the sanitized metadata written to the
\* audit record.
C24_SecretKeysDropped ==
    \A sink \in {ex.database, ex.file} :
        \A i \in 1..Len(sink) :
            \A key \in DOMAIN sink[i].metadata :
                \A j \in 1..Len(key) : <<Lower(key)[j]>> \notin remove_fields

\* The entries of a sink, each call that wrote nothing to it left out.
Written(failed) ==
    LET RECURSIVE Pick(_)
        Pick(i) == IF i > Len(ex.passed) THEN <<>>
                   ELSE (IF failed[i] THEN <<>> ELSE <<ex.passed[i]>>) \o Pick(i + 1)
    IN Pick(1)

\* C25: log_action never raises to its caller whatever the database sink or
\* the file sink does, and a failure of the database sink does not keep the
\* same record from the file sink and from the process logger.
C25_LogActionNeverRaises ==
    /\ ~ex.raised
    /\ Len(ex.logger) = ex.calls
    /\ ex.file = Written(ex.file_failed)

\* The database sink failed in a call whose record is in the file.
C25_Witness ==
    /\ ex.calls >= 1
    /\ ex.db_failed[1]
    /\ ~ex.file_failed[1]
    /\ ex.database = <<>>
    /\ ex.file # <<>>
    /\ ex.file[1] = ex.passed[1]


(***************************************************************************)
(* Properties of the objects the configuration cache hands out.            *)
(***************************************************************************)

\* C26: a consumer's modification of the configuration get_task_config
\* returned does not change the value later get_task_config calls return for
\* that key.
C26_SnapshotsIndependent ==
    [][ex'.step = "modify" => \A task \in Tasks : CachedValue(task)' = CachedValue(task)]_vars


(***************************************************************************)
(* Properties of invalidation.                                             *)
(***************************************************************************)

\* C27: invalidate_cache(task) removes exactly that task's local entry, its
\* timestamp and, through a working Redis handle, its shared-cache key, and
\* leaves every other entry and timestamp unchanged; invalidate_cache()
\* removes all local entries and all shared keys matching config:*; after
\* either, the local map does not answer a read of an invalidated key.
C27_InvalidateFrame ==
    /\ [][LET m == ex'
              p == m.proc
          IN
          /\ m.op = "invalidate" =>
                LET key == RuntimeKey(m.task) IN
                /\ cache'[p][key] = NoCfg
                /\ cache_timestamps'[p][key] = NoTime
                /\ m.del = "up" => redis'[key] = NoEntry
                /\ m.del # "up" => redis' = redis
                /\ \A k \in RedisKeys \ {key} : redis'[k] = redis[k]
                /\ \A q \in Procs, k \in RuntimeKeys :
                      (q # p \/ k # key) =>
                          /\ cache'[q][k] = cache[q][k]
                          /\ cache_timestamps'[q][k] = cache_timestamps[q][k]
          /\ m.op = "invalidate_all" =>
                /\ \A k \in RuntimeKeys :
                      /\ cache'[p][k] = NoCfg
                      /\ cache_timestamps'[p][k] = NoTime
                /\ m.del = "up" => \A k \in RedisKeys : redis'[k] = NoEntry
                /\ m.del # "up" => redis' = redis
                /\ \A q \in Procs \ {p} :
                      /\ cache'[q] = cache[q]
                      /\ cache_timestamps'[q] = cache_timestamps[q]]_vars
    /\ [](/\ ex.op = "invalidate" => ~IsCacheValid(ex.proc, RuntimeKey(ex.task))
          /\ ex.op = "invalidate_all" =>
                \A k \in RuntimeKeys : ~IsCacheValid(ex.proc, k))

\* One task was invalidated in a process that held entries for both tasks:
\* its entry and its shared key are gone, the other task's are still there.
C27_Witness ==
    /\ ex.op = "invalidate"
    /\ ex.had
    /\ ex.del = "up"
    /\ cache[ex.proc][RuntimeKey(ex.task)] = NoCfg
    /\ redis[RuntimeKey(ex.task)] = NoEntry
    /\ \E other \in Tasks \ {ex.task} :
          /\ cache[ex.proc][RuntimeKey(other)] # NoCfg
          /\ redis[RuntimeKey(other)] # NoEntry

\* ---------------------------------------------------------------------------
\* Properties of the default configuration.

\* C28: when the local map, the shared cache and the admin API all fail to
\* supply a config, get_task_config returns the built-in default for that name,
\* which has enabled = true for every name, unknown ones included, and leaves
\* the local map, its timestamps and the shared cache unchanged: the default
\* is in no cache, no call is answered with it from a cache, and the next
\* call goes to the lower layers again.
C28_DefaultLeavesCachesAlone ==
    /\ [][
           /\ last'.src \in {"fetching", "default"} =>
                 /\ cache' = cache
                 /\ cache_timestamps' = cache_timestamps
                 /\ redis' = redis
           /\ last'.src = "default" =>
                 /\ last'.val = DefaultConfig(last'.task)
                 /\ DefaultEnabled(last'.task)
       ]_vars
    /\ [](/\ \A p \in Procs, k \in RuntimeKeys : cache[p][k] # DefaultConfig(k[2])
          /\ \A k \in RuntimeKeys : redis[k].val # DefaultConfig(k[2])
          /\ last.src \in {"local", "redis"} => last.val # DefaultConfig(last.task))
    /\ [](\A n \in ConfigNames : DefaultEnabled(n))

\* A call returned the default although an earlier answer of the admin API
\* had populated this process's entry, now expired, and found nothing valid.
C28_Witness ==
    /\ last.src = "default"
    /\ cache[ProcOf(last.caller)][RuntimeKey(last.task)] # NoCfg
    /\ RedisGet(RuntimeKey(last.task)) = NoCfg

\* ---------------------------------------------------------------------------
\* Properties of the backend client's envelope.

\* C29: a call of the client that ended on a response with a 2xx status
\* returned an envelope with success = true, whatever the response body holds,
\* a field named success included.
C29_SuccessOn2xx ==
    (/\ bc.pc = "done"
     /\ Len(bc.hist) > 0
     /\ bc.attempt = Len(bc.hist)
     /\ bc.hist[Len(bc.hist)].kind = "response"
     /\ bc.hist[Len(bc.hist)].status >= 200
     /\ bc.hist[Len(bc.hist)].status < 300
     /\ bc.result.error # "Max retries exceeded")
        => bc.result.success


\* ---------------------------------------------------------------------------
\* Properties of the event lists.

C31_NextWeekdayStrictlyAhead ==
    (/\ ex # NoRun
     /\ ex.fn = "parse_date"
     /\ Len(ex.args.text) = 2
     /\ ex.args.text[1] = "next"
     /\ ex.args.text[2] \in DayNames)
        => /\ ex.out.days # NoDate
           /\ ex.out.days \in 1..7
           /\ (ex.args.today_weekday + ex.out.days) % 7 = weekdays[ex.args.text[2]]
           /\ (weekdays[ex.args.text[2]] = ex.args.today_weekday => ex.out.days = 7)


\* ---------------------------------------------------------------------------
\* Properties of the audit log's database pool.

\* C32: whatever the interleaving of concurrent first log_action calls, at
\* most one connection pool is ever created, and every call that got a pool
\* got that one.
C32_SinglePool ==
    /\ ex.created <= 1
    /\ \A c, d \in LogCallers :
          (ex.got[c] # NoPool /\ ex.got[d] # NoPool) => ex.got[c] = ex.got[d]

\* ---------------------------------------------------------------------------
\* Properties of concurrent turns of one process.

\* C33: when several turns of one process call get_task_config for the same
\* key on a cold or expired entry, at most one of them has a request to the
\* admin API under way for that key; the others issue none of their own.
C33_SingleFetchPerKey ==
    \A c, d \in DOMAIN pending :
        (/\ c # d
         /\ ProcOf(c) = ProcOf(d)
         /\ pending[c] # NoCall
         /\ pending[d] # NoCall)
            => pending[c].task # pending[d].task
\* ---------------------------------------------------------------------------
\* Properties of the answer action on low scores.

\* C34: for every retrieval whose top similarity score s has low <= s < medium
\* (50 <= s < 70 with the default thresholds), the answer action asks for
\* clarification and sets no qa_answer; it neither answers nor reports that
\* nothing was found.
C34_ClarifiesBetweenLowAndMedium ==
    (/\ ex # NoRun
     /\ ex.fn = "answer_retrieved"
     /\ ex.args.thresholds = DefaultThresholds
     /\ ex.args.retrieved # <<>>
     /\ ex.args.retrieved[1].score >= ex.args.thresholds.low
     /\ ex.args.retrieved[1].score < ex.args.thresholds.medium)
        => /\ ex.out.messages = <<Utter("utter_ask_clarification", None, None)>>
           /\ ex.out.events = <<>>


\* ---------------------------------------------------------------------------
\* Properties of a booking run against the backend.

\* C35: one run of action_create_booking creates at most one booking in the
\* backend, whatever timeouts and connection errors occur, and when the run
\* has returned and a booking was created, the booking_id slot is set.
C35_AtMostOneBooking ==
    /\ ex.bookings <= 1
    /\ (ex.pc = "returned" /\ ex.bookings >= 1) => slots["booking_id"] # None

\* ---------------------------------------------------------------------------
\* Properties of reads after an invalidation.

\* C36: once invalidate_cache(k) has completed, no later get_task_config(k)
\* returns from a cache a value that was fetched from the admin API before
\* the invalidation, a fetch that was under way during it included.
C36_NoStaleReadAfterInvalidate ==
    last.src \in {"local", "redis"} => ex.returned = "no"

\* ---------------------------------------------------------------------------
\* Properties of model training.

\* C37: at most one training is accepted and not yet finished at any time, so
\* a POST /train made meanwhile is answered 409, and is_training is true from
\* the acceptance of a training until it ends.
C37_OneTrainingAtATime ==
    LET open == {r \in TrainRequests : ex.req[r] \in {"accepted", "running"}} IN
    /\ Cardinality(open) <= 1
    /\ open # {} => ex.is_training

\* ---------------------------------------------------------------------------
\* Properties of the task switch.

\* C38: after an administrator disabled a task with toggle_task(task,
\* enabled = false), the config the admin read endpoint returns for the task
\* has enabled = false, and once the runtime has read it the gate sets
\* task_enabled = false.
C38_ToggleOffReachesGate ==
    (ex.read # NoRead /\ ex.did[ex.read.task_name] = "toggled off")
        => /\ ~ex.read.config.enabled
           /\ ex.task_enabled # "true"
\* ---------------------------------------------------------------------------
\* Properties of what reaches the LLM.

\* C39: a user message that holds a prompt-injection phrase or a
\* sensitive-data term is never handed to an LLM provider by a runtime action.
C39_UnsafeMessageNeverSent ==
    (ex # NoRun /\ ex.fn = "action_llm_response" /\ ex.out.llm_called)
        => check_safety(ex.out.prompt, <<>>).is_safe

====
